---- MODULE Spec2Model ----
(***************************************************************************)
(* Model of the rule-based repair engines of tinyllm:                      *)
(*   src/src/parsers/json-parser.js  (JSONParser, first class of the file) *)
(*   src/src/parsers/xml-parser.js   (XMLParser)                           *)
(* A text is a sequence of one-character strings.  Every rule of the two   *)
(* fix pipelines is an operator computed the way the code computes it      *)
(* (scanners as index recursions, regular expressions as their matchers).  *)
(***************************************************************************)
EXTENDS Integers, Sequences, FiniteSets, TLC

VARIABLES engine, input, pc, result, second,
          aiOptions, threw, trace, instance, returned

vars == <<engine, input, pc, result, second, aiOptions, threw, trace, instance, returned>>

(***************************************************************************)
(* Characters                                                              *)
(***************************************************************************)
DQ == "\""
SQ == "'"
BS == "\\"
NL == "\n"
CR == "\r"

\* JavaScript \s restricted to the characters texts are built from
WS == {" ", "\n", "\r", "\t", "\f"}

Digits == {"0", "1", "2", "3", "4", "5", "6", "7", "8", "9"}

Lower == {"a", "b", "c", "d", "e", "f", "g", "h", "i", "j", "k", "l", "m",
          "n", "o", "p", "q", "r", "s", "t", "u", "v", "w", "x", "y", "z"}

Upper == {"A", "B", "C", "D", "E", "F", "G", "H", "I", "J", "K", "L", "M",
          "N", "O", "P", "Q", "R", "S", "T", "U", "V", "W", "X", "Y", "Z"}

Letters == Lower \cup Upper

\* [a-zA-Z0-9:_-]
NameChars == Letters \cup Digits \cup {":", "_", "-"}

\* [a-zA-Z0-9-_]
PlainNameChars == Letters \cup Digits \cup {"_", "-"}

\* [a-zA-Z-]
AttrNameChars == Letters \cup {"-"}

\* [a-zA-Z_$] and [a-zA-Z0-9_$]
IdentStart == Letters \cup {"_", "$"}
IdentChars == IdentStart \cup Digits

(***************************************************************************)
(* String primitives (String.prototype methods the code relies on)         *)
(***************************************************************************)
\* s.substring(i-1) in 1-based positions: the suffix starting at position i
From(s, i) == IF i > Len(s) THEN <<>> ELSE SubSeq(s, i, Len(s))

\* s.substring(0, i-1): the prefix ending before position i
Upto(s, i) == IF i <= 1 THEN <<>> ELSE SubSeq(s, 1, i - 1)

\* the characters s[i..j], empty when j < i
Slice(s, i, j) == IF j < i THEN <<>> ELSE SubSeq(s, i, j)

\* pattern p occurs in s at position i
MatchAt(s, i, p) ==
    /\ i >= 1
    /\ i + Len(p) - 1 <= Len(s)
    /\ \A k \in 1..Len(p) : s[i + k - 1] = p[k]

\* s.startsWith(p)
StartsWith(s, p) == MatchAt(s, 1, p)

\* s.endsWith(p)
EndsWith(s, p) == Len(p) <= Len(s) /\ MatchAt(s, Len(s) - Len(p) + 1, p)

\* s.indexOf(p, from) in 1-based positions, 0 when absent
IndexOf(s, p, from) ==
    LET hits == {i \in from..(Len(s) - Len(p) + 1) : MatchAt(s, i, p)}
    IN  IF hits = {} THEN 0 ELSE CHOOSE i \in hits : \A j \in hits : i <= j

\* s.includes(p)
Includes(s, p) == IndexOf(s, p, 1) > 0

\* position of the first character at or after i that is in set cs, 0 if none
NextIn(s, i, cs) ==
    LET hits == {k \in i..Len(s) : s[k] \in cs}
    IN  IF hits = {} THEN 0 ELSE CHOOSE k \in hits : \A j \in hits : k <= j

\* position of the first character at or after i that is NOT in set cs;
\* Len(s) + 1 when the run reaches the end of the text
SkipWhile(s, i, cs) ==
    LET hits == {k \in i..Len(s) : s[k] \notin cs}
    IN  IF hits = {} THEN Len(s) + 1 ELSE CHOOSE k \in hits : \A j \in hits : k <= j

\* s.trim()
Trim(s) ==
    LET keep == {k \in 1..Len(s) : s[k] \notin WS}
    IN  IF keep = {} THEN <<>>
        ELSE LET lo == CHOOSE k \in keep : \A j \in keep : k <= j
                 hi == CHOOSE k \in keep : \A j \in keep : k >= j
             IN  SubSeq(s, lo, hi)

\* number of positions of s holding character c
Count(s, c) == Cardinality({k \in 1..Len(s) : s[k] = c})

\* c.repeat(n)
Repeat(c, n) == [k \in 1..n |-> c]

RECURSIVE Concat(_)
Concat(ss) == IF ss = <<>> THEN <<>> ELSE Head(ss) \o Concat(Tail(ss))

(***************************************************************************)
(* Global regular expressions.  A regex is given by its matcher End(s, p): *)
(* the position of the last character of the match that starts at p, or 0  *)
(* when the regex does not match at p.  No regex of the code matches the   *)
(* empty string.                                                           *)
(***************************************************************************)
\* A loop whose state st carries the loop variable st.i: Body(s, st) is the
\* state one iteration leaves.  The iterations at the positions lo..hi of s
\* run in order; a position the loop has already moved past is not visited.
\* The range is halved only to keep the evaluation shallow.
RECURSIVE Loop(_, _, _, _, _)
Loop(Body(_, _), s, st, lo, hi) ==
    IF lo > hi \/ st.i > hi THEN st
    ELSE IF lo = hi THEN Body(s, st)
    ELSE LET mid == (lo + hi) \div 2
         IN  Loop(Body, s, Loop(Body, s, st, lo, mid), mid + 1, hi)

\* s.replace(regex, replacer) for a global regex: the matches are taken left
\* to right without overlap, Rep(s, p, e) replaces the match s[p..e] and the
\* characters outside the matches are kept
ReplaceAll(End(_, _), Rep(_, _, _), s, i) ==
    LET step(t, st) ==
            LET e == End(t, st.i)
            IN  IF e > 0
                  THEN [i |-> e + 1, result |-> st.result \o Rep(t, st.i, e)]
                  ELSE [i |-> st.i + 1, result |-> Append(st.result, t[st.i])]
    IN  Loop(step, s, [i |-> i, result |-> <<>>], i, Len(s)).result

\* the [start, end] ranges of the successive matches of regex.exec
MatchRanges(End(_, _), s, i) ==
    LET step(t, st) ==
            LET e == End(t, st.i)
            IN  IF e > 0
                  THEN [i |-> e + 1,
                        ranges |-> Append(st.ranges, [start |-> st.i, end |-> e])]
                  ELSE [st EXCEPT !.i = @ + 1]
    IN  Loop(step, s, [i |-> i, ranges |-> <<>>], i, Len(s)).ranges

\* the replacement ''
Nothing(s, p, e) == <<>>

(***************************************************************************)
(* JSONParser.fix: the rules, in pipeline order                            *)
(***************************************************************************)

\* Fix 1: fixed.replace(/'([^']*)'/g, '"$1"')
singleQuotedEnd(s, p) == IF s[p] = SQ THEN IndexOf(s, <<SQ>>, p + 1) ELSE 0

singleQuotedRep(s, p, e) == <<DQ>> \o Slice(s, p + 1, e - 1) \o <<DQ>>

convertSingleQuotes(s) == ReplaceAll(singleQuotedEnd, singleQuotedRep, s, 1)

\* the length past which _fixUnclosedStrings treats , } ] as the end of a string
UnclosedStringLimit == 200

\* Fix 2: _fixUnclosedStrings, one iteration of the for loop
fixUnclosedStringsStep(s, st) ==
    LET i == st.i
        char == s[i]
        next == [st EXCEPT !.i = i + 1]
    IN
      IF st.escapeNext
        THEN [next EXCEPT !.result = Append(@, char), !.escapeNext = FALSE]
      ELSE IF char = BS /\ st.inString
        THEN [next EXCEPT !.result = Append(@, char), !.escapeNext = TRUE]
      ELSE IF char = DQ
        THEN IF ~st.inString
               THEN [next EXCEPT !.result = Append(@, char), !.inString = TRUE,
                               !.stringStart = i]
               ELSE [next EXCEPT !.result = Append(@, char), !.inString = FALSE,
                               !.stringStart = -1]
      ELSE IF st.inString /\ char \in {NL, CR}
        THEN [next EXCEPT !.result = @ \o <<DQ, char>>, !.inString = FALSE,
                        !.stringStart = -1]
      ELSE IF /\ st.inString
              /\ char \in {",", "}", "]"}
              /\ (i - st.stringStart > UnclosedStringLimit \/ char = NL)
        THEN [next EXCEPT !.result = @ \o <<DQ, char>>, !.inString = FALSE,
                        !.stringStart = -1]
      ELSE [next EXCEPT !.result = Append(@, char)]

fixUnclosedStrings(s) ==
    LET st == Loop(fixUnclosedStringsStep, s,
                   [result |-> <<>>, inString |-> FALSE, escapeNext |-> FALSE,
                    stringStart |-> -1, i |-> 1],
                   1, Len(s))
    IN  IF st.inString THEN Append(st.result, DQ) ELSE st.result

\* end of a // comment whose body starts at i: the position of the newline
SkipLine(s, i) ==
    LET j == NextIn(s, i, {NL}) IN IF j = 0 THEN Len(s) + 1 ELSE j

\* end of a /* comment whose body starts at i: the inner loop
\* while (i < length - 1) of _removeComments
SkipBlock(s, i) ==
    LET j == IndexOf(s, <<"*", "/">>, i)
    IN  IF j > 0 THEN j + 2
        ELSE IF i > Len(s) THEN i
        ELSE Len(s)

\* Fix 3: _removeComments, one iteration of the while loop
removeCommentsStep(s, st) ==
    LET k == st.i
        char == s[k]
        nextChar == IF k < Len(s) THEN s[k + 1] ELSE ""
    IN
      IF st.escapeNext
        THEN [st EXCEPT !.result = Append(@, char), !.escapeNext = FALSE, !.i = k + 1]
      ELSE IF char = BS /\ st.inString
        THEN [st EXCEPT !.result = Append(@, char), !.escapeNext = TRUE, !.i = k + 1]
      ELSE IF char = DQ
        THEN [st EXCEPT !.result = Append(@, char), !.inString = ~@, !.i = k + 1]
      ELSE IF st.inString
        THEN [st EXCEPT !.result = Append(@, char), !.i = k + 1]
      ELSE IF char = "/" /\ nextChar = "/"
        THEN [st EXCEPT !.i = SkipLine(s, k + 2)]
      ELSE IF char = "/" /\ nextChar = "*"
        THEN [st EXCEPT !.i = SkipBlock(s, k + 2)]
      ELSE [st EXCEPT !.result = Append(@, char), !.i = k + 1]

removeComments(s) ==
    Loop(removeCommentsStep, s,
         [result |-> <<>>, inString |-> FALSE, escapeNext |-> FALSE, i |-> 1],
         1, Len(s)).result

\* Fix 4: fixed.replace(/,(\s*[}\]])/g, '$1')
trailingCommaEnd(s, p) ==
    IF s[p] # "," THEN 0
    ELSE LET j == SkipWhile(s, p + 1, WS)
         IN  IF j <= Len(s) /\ s[j] \in {"}", "]"} THEN j ELSE 0

trailingCommaRep(s, p, e) == Slice(s, p + 1, e)

removeTrailingCommas(s) == ReplaceAll(trailingCommaEnd, trailingCommaRep, s, 1)

\* Fix 5: fixed.replace(/([{,]\s*)([a-zA-Z_$][a-zA-Z0-9_$]*)(\s*:)/g, '$1"$2"$3')
unquotedKeyEnd(s, p) ==
    IF s[p] \notin {"{", ","} THEN 0
    ELSE LET j == SkipWhile(s, p + 1, WS)
             k == SkipWhile(s, j + 1, IdentChars)
             m == SkipWhile(s, k, WS)
         IN  IF /\ j <= Len(s) /\ s[j] \in IdentStart
                /\ m <= Len(s) /\ s[m] = ":"
               THEN m ELSE 0

unquotedKeyRep(s, p, e) ==
    LET j == SkipWhile(s, p + 1, WS)
        k == SkipWhile(s, j + 1, IdentChars)
    IN  Slice(s, p, j - 1) \o <<DQ>> \o Slice(s, j, k - 1) \o <<DQ>> \o Slice(s, k, e)

quoteUnquotedKeys(s) == ReplaceAll(unquotedKeyEnd, unquotedKeyRep, s, 1)

\* Fix 6: _addMissingCommas, one iteration of the for loop
addMissingCommasStep(s, st) ==
    LET i == st.i
        char == s[i]
        next == [st EXCEPT !.i = i + 1]
        comma == IF st.lastToken \in {"}", "]", DQ} THEN <<",">> ELSE <<>>
    IN
      IF st.escapeNext
        THEN [next EXCEPT !.result = Append(@, char), !.escapeNext = FALSE]
      ELSE IF char = BS /\ st.inString
        THEN [next EXCEPT !.result = Append(@, char), !.escapeNext = TRUE]
      ELSE IF char = DQ
        THEN IF ~st.inString
               THEN [next EXCEPT !.result = @ \o comma \o st.pendingWhitespace \o <<char>>,
                               !.pendingWhitespace = <<>>, !.inString = TRUE]
               ELSE [next EXCEPT !.result = Append(@, char), !.inString = FALSE,
                               !.lastToken = DQ]
      ELSE IF st.inString
        THEN [next EXCEPT !.result = Append(@, char)]
      ELSE IF char \in WS
        THEN [next EXCEPT !.pendingWhitespace = Append(@, char)]
      ELSE IF char \in {"{", "["}
        THEN [next EXCEPT !.result = @ \o comma \o st.pendingWhitespace \o <<char>>,
                        !.pendingWhitespace = <<>>, !.lastToken = char]
      ELSE IF char \in {"}", "]", ":", ","}
        THEN [next EXCEPT !.result = @ \o st.pendingWhitespace \o <<char>>,
                        !.pendingWhitespace = <<>>, !.lastToken = char]
      ELSE [next EXCEPT !.result = @ \o st.pendingWhitespace \o <<char>>,
                      !.pendingWhitespace = <<>>]

\* the for loop when the escape flag is not kept to the next character
addMissingCommasStepNoEscape(s, st) ==
    [addMissingCommasStep(s, st) EXCEPT !.escapeNext = FALSE]

addMissingCommasNoEscape(s) ==
    LET st == Loop(addMissingCommasStepNoEscape, s,
                   [result |-> <<>>, inString |-> FALSE, escapeNext |-> FALSE,
                    pendingWhitespace |-> <<>>, lastToken |-> "", i |-> 1],
                   1, Len(s))
    IN  st.result \o st.pendingWhitespace

addMissingCommas(s) ==
    LET st == Loop(addMissingCommasStep, s,
                   [result |-> <<>>, inString |-> FALSE, escapeNext |-> FALSE,
                    pendingWhitespace |-> <<>>, lastToken |-> "", i |-> 1],
                   1, Len(s))
    IN  st.result \o st.pendingWhitespace

\* Fix 7: openBraces - closeBraces and openBrackets - closeBrackets, when positive
missingBraces(s) ==
    IF Count(s, "{") > Count(s, "}") THEN Count(s, "{") - Count(s, "}") ELSE 0

missingBrackets(s) ==
    IF Count(s, "[") > Count(s, "]") THEN Count(s, "[") - Count(s, "]") ELSE 0

\* Fix 8: trimmed.match(/^"[^"]+"\s*:\s*.+}$/s)
looksLikeMissingOpeningBrace(s) ==
    LET t == Trim(s)
        q == IndexOf(t, <<DQ>>, 2)
        c == SkipWhile(t, q + 1, WS)
    IN  /\ Len(t) >= 1 /\ t[1] = DQ
        /\ q >= 3
        /\ c <= Len(t) /\ t[c] = ":"
        /\ Len(t) - c >= 2
        /\ t[Len(t)] = "}"

addMissingOpeningBrace(s) ==
    IF looksLikeMissingOpeningBrace(s) THEN <<"{">> \o s ELSE s

\* Fix 9: fixed.replace(/:\s*0([0-9]+)/g, ': $1')
leadingZeroEnd(s, p) ==
    IF s[p] # ":" THEN 0
    ELSE LET j == SkipWhile(s, p + 1, WS)
         IN  IF j < Len(s) /\ s[j] = "0" /\ s[j + 1] \in Digits
               THEN SkipWhile(s, j + 1, Digits) - 1 ELSE 0

leadingZeroRep(s, p, e) ==
    <<":", " ">> \o Slice(s, SkipWhile(s, p + 1, WS) + 1, e)

fixLeadingZeros(s) == ReplaceAll(leadingZeroEnd, leadingZeroRep, s, 1)

\* the characters of (?!["\\/bfnrtu])
EscapeChars == {DQ, BS, "/", "b", "f", "n", "r", "t", "u"}

\* content.replace(/\\/g, '\\\\')
backslashEnd(s, p) == IF s[p] = BS THEN p ELSE 0

backslashRep(s, p, e) == <<BS, BS>>

doubleBackslashes(s) == ReplaceAll(backslashEnd, backslashRep, s, 1)

\* /"([^"]*\\(?!["\\/bfnrtu]))/ at the quote at p: [^"]* is greedy, so the
\* match ends at the last backslash before the next quote that no escape
\* character follows
unescapedBackslashEnd(s, p) ==
    IF s[p] # DQ THEN 0
    ELSE LET e == NextIn(s, p + 1, {DQ})
             bound == IF e > 0 THEN e - 1 ELSE Len(s)
             hits == {b \in (p + 1)..bound :
                         s[b] = BS /\ (b = Len(s) \/ s[b + 1] \notin EscapeChars)}
         IN  IF hits = {} THEN 0 ELSE CHOOSE b \in hits : \A c \in hits : b >= c

unescapedBackslashRep(s, p, e) == <<DQ>> \o doubleBackslashes(Slice(s, p + 1, e))

\* Fix 10: fixed.replace(/"([^"]*\\(?!["\\/bfnrtu]))/g, (match, content) => ...)
escapeBackslashes(s) == ReplaceAll(unescapedBackslashEnd, unescapedBackslashRep, s, 1)

\* /:\s*WORD/ at position p
literalEnd(s, word, p) ==
    IF s[p] # ":" THEN 0
    ELSE LET j == SkipWhile(s, p + 1, WS)
         IN  IF MatchAt(s, j, word) THEN j + Len(word) - 1 ELSE 0

nanEnd(s, p) == literalEnd(s, <<"N", "a", "N">>, p)

infinityEnd(s, p) == literalEnd(s, <<"I", "n", "f", "i", "n", "i", "t", "y">>, p)

undefinedEnd(s, p) == literalEnd(s, <<"u", "n", "d", "e", "f", "i", "n", "e", "d">>, p)

\* the replacement ': null'
nullRep(s, p, e) == <<":", " ", "n", "u", "l", "l">>

\* Fix 11: NaN, Infinity, undefined as values become null
normalizeLiterals(s) ==
    ReplaceAll(undefinedEnd, nullRep,
        ReplaceAll(infinityEnd, nullRep,
            ReplaceAll(nanEnd, nullRep, s, 1), 1), 1)

(***************************************************************************)
(* JSON.parse: the strict decoder JSONParser.parse calls.  A position is   *)
(* the index of the next unread character; 0 stands for a SyntaxError.     *)
(***************************************************************************)
JsonWS == {" ", "\n", "\r", "\t"}

\* the backspace character, which a TLA+ string cannot hold
Backspace == "^H"

ControlChars == {"\n", "\r", "\t", "\f", Backspace}

HexDigits == Digits \cup {"a", "b", "c", "d", "e", "f", "A", "B", "C", "D", "E", "F"}

\* the position after the string literal whose opening quote is at i - 1
RECURSIVE jsonStringEnd(_, _)
jsonStringEnd(s, i) ==
    IF i > Len(s) THEN 0
    ELSE IF s[i] = DQ THEN i + 1
    ELSE IF s[i] \in ControlChars THEN 0
    ELSE IF s[i] = BS
      THEN IF i + 1 > Len(s) THEN 0
           ELSE IF s[i + 1] \in {DQ, BS, "/", "b", "f", "n", "r", "t"}
             THEN jsonStringEnd(s, i + 2)
           ELSE IF /\ s[i + 1] = "u"
                   /\ i + 5 <= Len(s)
                   /\ \A k \in 2..5 : s[i + k] \in HexDigits
             THEN jsonStringEnd(s, i + 6)
           ELSE 0
    ELSE jsonStringEnd(s, i + 1)

\* the position after the digits that start at i, 0 when there is no digit
digitsEnd(s, i) ==
    IF i <= Len(s) /\ s[i] \in Digits THEN SkipWhile(s, i, Digits) ELSE 0

\* the position after the number that starts at i
jsonNumberEnd(s, i) ==
    LET a == IF i <= Len(s) /\ s[i] = "-" THEN i + 1 ELSE i
        b == IF a <= Len(s) /\ s[a] = "0" THEN a + 1 ELSE digitsEnd(s, a)
        c == IF b > 0 /\ b <= Len(s) /\ s[b] = "." THEN digitsEnd(s, b + 1) ELSE b
        d == IF c > 0 /\ c <= Len(s) /\ s[c] \in {"e", "E"}
               THEN digitsEnd(s, IF c + 1 <= Len(s) /\ s[c + 1] \in {"+", "-"}
                                   THEN c + 2 ELSE c + 1)
               ELSE c
    IN  d

RECURSIVE jsonValueEnd(_, _), jsonMembersEnd(_, _), jsonElementsEnd(_, _)

\* the position after the value that starts at or after i (whitespace skipped)
jsonValueEnd(s, i) ==
    LET j == SkipWhile(s, i, JsonWS) IN
      IF j > Len(s) THEN 0
      ELSE IF s[j] = DQ THEN jsonStringEnd(s, j + 1)
      ELSE IF s[j] = "{"
        THEN LET k == SkipWhile(s, j + 1, JsonWS)
             IN  IF k <= Len(s) /\ s[k] = "}" THEN k + 1 ELSE jsonMembersEnd(s, k)
      ELSE IF s[j] = "["
        THEN LET k == SkipWhile(s, j + 1, JsonWS)
             IN  IF k <= Len(s) /\ s[k] = "]" THEN k + 1 ELSE jsonElementsEnd(s, k)
      ELSE IF MatchAt(s, j, <<"t", "r", "u", "e">>) THEN j + 4
      ELSE IF MatchAt(s, j, <<"f", "a", "l", "s", "e">>) THEN j + 5
      ELSE IF MatchAt(s, j, <<"n", "u", "l", "l">>) THEN j + 4
      ELSE IF s[j] \in Digits \cup {"-"} THEN jsonNumberEnd(s, j)
      ELSE 0

\* "key": value pairs from position i up to and including the closing brace
jsonMembersEnd(s, i) ==
    IF i > Len(s) \/ s[i] # DQ THEN 0
    ELSE LET k == jsonStringEnd(s, i + 1)
             c == SkipWhile(s, k, JsonWS)
         IN  IF k = 0 \/ c > Len(s) \/ s[c] # ":" THEN 0
             ELSE LET v == jsonValueEnd(s, c + 1)
                      e == SkipWhile(s, v, JsonWS)
                  IN  IF v = 0 \/ e > Len(s) THEN 0
                      ELSE IF s[e] = "}" THEN e + 1
                      ELSE IF s[e] = "," THEN jsonMembersEnd(s, SkipWhile(s, e + 1, JsonWS))
                      ELSE 0

\* array elements from position i up to and including the closing bracket
jsonElementsEnd(s, i) ==
    LET v == jsonValueEnd(s, i)
        e == SkipWhile(s, v, JsonWS)
    IN  IF v = 0 \/ e > Len(s) THEN 0
        ELSE IF s[e] = "]" THEN e + 1
        ELSE IF s[e] = "," THEN jsonElementsEnd(s, e + 1)
        ELSE 0

\* JSON.parse(s) does not throw
jsonAccepts(s) ==
    LET v == jsonValueEnd(s, 1)
    IN  v > 0 /\ SkipWhile(s, v, JsonWS) > Len(s)

\* the character an escape sequence \c stands for
Unescape(c) ==
    CASE c = "n" -> "\n"
      [] c = "r" -> "\r"
      [] c = "t" -> "\t"
      [] c = "f" -> "\f"
      [] c = "b" -> Backspace
      [] OTHER -> c

\* the decoded characters of the string body that starts at i
RECURSIVE jsonStringValue(_, _)
jsonStringValue(s, i) ==
    IF i > Len(s) \/ s[i] = DQ THEN <<>>
    ELSE IF s[i] = BS /\ i < Len(s) /\ s[i + 1] # "u"
      THEN <<Unescape(s[i + 1])>> \o jsonStringValue(s, i + 2)
    ELSE <<s[i]>> \o jsonStringValue(s, i + 1)

\* The decoded value of an accepted text, as the sequence of its tokens:
\* a string is the quote followed by its decoded characters, a number or a
\* literal is its characters, a punctuation mark is itself.
RECURSIVE jsonValue(_, _)
jsonValue(s, i) ==
    LET j == SkipWhile(s, i, JsonWS) IN
      IF j > Len(s) THEN <<>>
      ELSE IF s[j] = DQ
        THEN LET e == jsonStringEnd(s, j + 1)
             IN  IF e = 0 THEN <<>>
                 ELSE <<(<<DQ>> \o jsonStringValue(s, j + 1))>> \o jsonValue(s, e)
      ELSE IF s[j] \in {"{", "}", "[", "]", ":", ","}
        THEN <<(<<s[j]>>)>> \o jsonValue(s, j + 1)
      ELSE LET e == SkipWhile(s, j, Letters \cup Digits \cup {"-", "+", "."})
           IN  IF e = j THEN <<>>
               ELSE <<Slice(s, j, e - 1)>> \o jsonValue(s, e)

NoData == <<>>

\* JSONParser.parse
JSONparse(s) ==
    IF jsonAccepts(s)
      THEN [success |-> TRUE, data |-> jsonValue(s, 1), errors |-> <<>>]
      ELSE [success |-> FALSE, data |-> NoData,
            errors |-> <<[type |-> "parse_error"]>>]


(***************************************************************************)
(* Entries of a fixes list.  A label that carries values (a count, the two *)
(* tag names of a corrected closing tag) keeps them in n, from and to.     *)
(***************************************************************************)
Fix(label) == [label |-> label, n |-> 0, from |-> <<>>, to |-> <<>>]

FixN(label, n) == [label |-> label, n |-> n, from |-> <<>>, to |-> <<>>]

\* One step of fix on the running text and fixes list: fixed becomes after,
\* and f is pushed when the text changed.
Step(st, after, f) ==
    [fixed |-> after,
     fixes |-> IF after # st.fixed THEN Append(st.fixes, f) ELSE st.fixes]

jsonFix1(st) ==
    Step(st, convertSingleQuotes(st.fixed), Fix("Converted single quotes to double quotes"))

jsonFix2(st) == Step(st, fixUnclosedStrings(st.fixed), Fix("Fixed unclosed strings"))

jsonFix3(st) == Step(st, removeComments(st.fixed), Fix("Removed comments"))

jsonFix4(st) == Step(st, removeTrailingCommas(st.fixed), Fix("Removed trailing commas"))

jsonFix5(st) == Step(st, quoteUnquotedKeys(st.fixed), Fix("Quoted unquoted keys"))

jsonFix6(st) ==
    Step(st, addMissingCommas(st.fixed), Fix("Added missing commas between properties"))

\* Fix 7: the deficit of closing braces is appended, then that of brackets
jsonFix7Braces(st) ==
    Step(st, st.fixed \o Repeat("}", missingBraces(st.fixed)),
         FixN("Added missing closing brace(s)", missingBraces(st.fixed)))

jsonFix7Brackets(st) ==
    Step(st, st.fixed \o Repeat("]", missingBrackets(st.fixed)),
         FixN("Added missing closing bracket(s)", missingBrackets(st.fixed)))

jsonFix8(st) == Step(st, addMissingOpeningBrace(st.fixed), Fix("Added missing opening brace"))

jsonFix9(st) == Step(st, fixLeadingZeros(st.fixed), Fix("Fixed numbers with leading zeros"))

jsonFix10(st) == Step(st, escapeBackslashes(st.fixed), Fix("Fixed unescaped backslashes"))

\* Fix 11 pushes nothing
jsonFix11(st) == [fixed |-> normalizeLiterals(st.fixed), fixes |-> st.fixes]

\* the object fix returns, from the validation of the repaired text
jsonFixResult(jsonString, st, parseResult) ==
    [original |-> jsonString,
     fixes    |-> st.fixes,
     fixed    |-> st.fixed,
     success  |-> parseResult.success,
     data     |-> parseResult.data,
     errors   |-> parseResult.errors]

jsonFixValidate(jsonString, st) == jsonFixResult(jsonString, st, JSONparse(st.fixed))

\* the step of fix that st.i numbers, on the running text and fixes list
jsonFixRule(st) ==
    CASE st.i = 1  -> jsonFix1(st)
      [] st.i = 2  -> jsonFix2(st)
      [] st.i = 3  -> jsonFix3(st)
      [] st.i = 4  -> jsonFix4(st)
      [] st.i = 5  -> jsonFix5(st)
      [] st.i = 6  -> jsonFix6(st)
      [] st.i = 7  -> jsonFix7Braces(st)
      [] st.i = 8  -> jsonFix7Brackets(st)
      [] st.i = 9  -> jsonFix8(st)
      [] st.i = 10 -> jsonFix9(st)
      [] st.i = 11 -> jsonFix10(st)
      [] st.i = 12 -> jsonFix11(st)

\* the state a step leaves to the next one
Then(st, r) == [i |-> st.i + 1, fixed |-> r.fixed, fixes |-> r.fixes]

jsonFixStep(jsonString, st) == Then(st, jsonFixRule(st))

\* JSONParser.fix
JSONfix(jsonString) ==
    jsonFixValidate(jsonString,
        Loop(jsonFixStep, jsonString,
             [i |-> 1, fixed |-> jsonString, fixes |-> <<>>], 1, 12))


(***************************************************************************)
(* XMLParser: tag scanning                                                 *)
(***************************************************************************)

\* /<\?[^?]*\?>/ at position i: the position of its last character, else 0
piEnd(s, i) ==
    LET q == NextIn(s, i + 2, {"?"})
    IN  IF MatchAt(s, i, <<"<", "?">>) /\ q > 0 /\ q < Len(s) /\ s[q + 1] = ">"
          THEN q + 1 ELSE 0

\* /<!--[\s\S]*?-->/ at position i
commentEnd(s, i) ==
    LET j == IndexOf(s, <<"-", "-", ">">>, i + 4)
    IN  IF MatchAt(s, i, <<"<", "!", "-", "-">>) /\ j > 0 THEN j + 2 ELSE 0

\* /<!\[CDATA\[[\s\S]*?\]\]>/ at position i
cdataEnd(s, i) ==
    LET j == IndexOf(s, <<"]", "]", ">">>, i + 9)
    IN  IF MatchAt(s, i, <<"<", "!", "[", "C", "D", "A", "T", "A", "[">>) /\ j > 0
          THEN j + 2 ELSE 0

\* the chain .replace(pi, '').replace(comment, '').replace(cdata, '')
stripConstructs(s) ==
    ReplaceAll(cdataEnd, Nothing,
        ReplaceAll(commentEnd, Nothing,
            ReplaceAll(piEnd, Nothing, s, 1), 1), 1)

\* /<\/?([a-zA-Z][a-zA-Z0-9:_-]*)[^>]*>/ at position p: the position of the
\* > that ends the match
tagEnd(s, p) ==
    IF s[p] # "<" THEN 0
    ELSE LET q == IF p < Len(s) /\ s[p + 1] = "/" THEN p + 2 ELSE p + 1
         IN  IF q <= Len(s) /\ s[q] \in Letters
               THEN NextIn(s, SkipWhile(s, q + 1, NameChars), {">"})
               ELSE 0

\* the match s[p..e] of tagRegex as a tag record
tagAt(s, p, e) ==
    LET closing == s[p + 1] = "/"
        q       == IF closing THEN p + 2 ELSE p + 1
    IN  [name          |-> Slice(s, q, SkipWhile(s, q + 1, NameChars) - 1),
         position      |-> p,
         end           |-> e,
         isClosing     |-> closing,
         isSelfClosing |-> s[e - 1] = "/"]

\* the successive matches of tagRegex.exec
scanTags(s) ==
    LET ranges == MatchRanges(tagEnd, s, 1)
    IN  [k \in 1..Len(ranges) |-> tagAt(s, ranges[k].start, ranges[k].end)]

\* match[0] of a tag
fullTag(s, tag) == Slice(s, tag.position, tag.end)

(***************************************************************************)
(* XMLParser.parse on Node.js: _validateXMLStructure                       *)
(***************************************************************************)
XmlError(type) == [type |-> type, tag |-> <<>>, expected |-> <<>>, found |-> <<>>]

\* one iteration of the loop over the tags; tagStack holds the open names,
\* top last
validateStep(tags, st) ==
    LET tag  == tags[st.i]
        next == [st EXCEPT !.i = @ + 1]
        rest == SubSeq(st.tagStack, 1, Len(st.tagStack) - 1)
    IN
      IF tag.isClosing
        THEN IF st.tagStack = <<>>
               THEN [next EXCEPT !.errors =
                       Append(@, [XmlError("unmatched_closing_tag") EXCEPT !.tag = tag.name])]
             ELSE IF st.tagStack[Len(st.tagStack)] # tag.name
               THEN [next EXCEPT !.tagStack = rest,
                                 !.errors = Append(@, [XmlError("mismatched_tags") EXCEPT
                                                !.expected = st.tagStack[Len(st.tagStack)],
                                                !.found = tag.name])]
             ELSE [next EXCEPT !.tagStack = rest]
      ELSE IF ~tag.isSelfClosing
        THEN [next EXCEPT !.tagStack = Append(@, tag.name)]
      ELSE next

\* the errors of the loop, then one unclosed_tag error per name left open
validateTags(tags) ==
    LET st == Loop(validateStep, tags, [i |-> 1, tagStack |-> <<>>, errors |-> <<>>],
                   1, Len(tags))
    IN  st.errors \o [k \in 1..Len(st.tagStack) |->
                        [XmlError("unclosed_tag") EXCEPT !.tag = st.tagStack[k]]]

validateXMLStructure(xmlString) ==
    LET errors == validateTags(scanTags(stripConstructs(xmlString)))
    IN  [success |-> errors = <<>>,
         data    |-> IF errors = <<>> THEN xmlString ELSE NoData,
         errors  |-> errors]

\* XMLParser.parse where DOMParser is undefined
XMLparse(xmlString) == validateXMLStructure(xmlString)

(***************************************************************************)
(* XMLParser._detectCriticalErrors                                         *)
(***************************************************************************)
\* trimmed.replace(/^<\?xml[^?]*\?>\s*/, '')
removeDeclaration(t) ==
    LET q == NextIn(t, 6, {"?"})
    IN  IF /\ StartsWith(t, <<"<", "?", "x", "m", "l">>)
           /\ q > 0 /\ q < Len(t) /\ t[q + 1] = ">"
          THEN From(t, SkipWhile(t, q + 2, WS))
          ELSE t

\* /<([a-zA-Z][a-zA-Z0-9-_]*)\s+([a-zA-Z][a-zA-Z0-9-_]*)[^=]/ matches at i
tagWithSpaceAt(s, i) ==
    LET e == SkipWhile(s, i + 2, PlainNameChars)
        w == SkipWhile(s, e, WS)
    IN  /\ s[i] = "<"
        /\ i < Len(s) /\ s[i + 1] \in Letters
        /\ e <= Len(s) /\ s[e] \in WS
        /\ w < Len(s) /\ s[w] \in Letters
        /\ s[w + 1] # "="

\* /<[^>]+=/.test(s)
hasAttributeEquals(s) ==
    \E i \in 1..Len(s) : \E j \in (i + 2)..Len(s) :
        /\ s[i] = "<"
        /\ s[j] = "="
        /\ \A k \in (i + 1)..(j - 1) : s[k] # ">"

\* index of the match of /<([a-zA-Z][a-zA-Z0-9:_-]*)/, 0 when there is none
firstTagIndex(s) ==
    LET hits == {i \in 1..(Len(s) - 1) : s[i] = "<" /\ s[i + 1] \in Letters}
    IN  IF hits = {} THEN 0 ELSE CHOOSE i \in hits : \A j \in hits : i <= j

\* one iteration of the depth walk over the tags
rootStep(tags, st) ==
    LET tag  == tags[st.i]
        next == [st EXCEPT !.i = @ + 1]
    IN
      IF ~tag.isClosing /\ ~tag.isSelfClosing
        THEN [next EXCEPT !.depth = @ + 1,
                          !.rootMatches = IF st.depth = 0 THEN Append(@, tag.name) ELSE @]
      ELSE IF tag.isClosing
        THEN [next EXCEPT !.depth = @ - 1]
      ELSE next

\* rootMatches: the names of the tags opened at depth 0
rootMatches(tags) ==
    Loop(rootStep, tags, [i |-> 1, depth |-> 0, rootMatches |-> <<>>],
         1, Len(tags)).rootMatches

detectCriticalErrors(xmlString) ==
    LET withoutDecl == removeDeclaration(Trim(xmlString))
        tagWithSpace == \E i \in 1..Len(withoutDecl) : tagWithSpaceAt(withoutDecl, i)
        first == firstTagIndex(withoutDecl)
        withoutAllowed ==
            Trim(ReplaceAll(commentEnd, Nothing,
                   ReplaceAll(piEnd, Nothing, Trim(Upto(withoutDecl, first)), 1), 1))
        roots == rootMatches(scanTags(stripConstructs(withoutDecl)))
        startsWithClosing ==
            MatchAt(withoutDecl, SkipWhile(withoutDecl, 1, WS), <<"<", "/">>)
        hasNoOpeningTag ==
            /\ ~\E i \in 1..(Len(withoutDecl) - 1) :
                  withoutDecl[i] = "<" /\ withoutDecl[i + 1] \in Letters \cup Digits
            /\ Includes(withoutDecl, <<"<", "/">>)
    IN     (IF tagWithSpace /\ ~hasAttributeEquals(withoutDecl)
              THEN <<XmlError("invalid_tag_name")>> ELSE <<>>)
        \o (IF first > 0 /\ Len(withoutAllowed) > 0
              THEN <<XmlError("text_before_root")>> ELSE <<>>)
        \o (IF Len(roots) > 1
              THEN <<XmlError("multiple_roots")>> ELSE <<>>)
        \o (IF startsWithClosing \/ hasNoOpeningTag
              THEN <<XmlError("missing_opening_tag")>> ELSE <<>>)


(***************************************************************************)
(* XMLParser._isSimilarTag and _levenshteinDistance                        *)
(***************************************************************************)
Min(a, b) == IF a < b THEN a ELSE b

\* the inner loop at j = st.i: dp[i][j] appended to the cells dp[i][0..j-1]
\* of st.row; prev is the row dp[i-1][0..n]
levCell(prev, ch, str2, st) ==
    LET j == st.i
    IN  [i   |-> j + 1,
         row |-> Append(st.row,
                   IF ch = str2[j]
                     THEN prev[j]
                     ELSE Min(Min(prev[j + 1] + 1, st.row[j] + 1), prev[j] + 1))]

\* the outer loop at i = st.i: the row dp[i][0..n] from the row dp[i-1][0..n]
levRow(str2, str1, st) ==
    LET i == st.i
        cell(t, c) == levCell(st.row, str1[i], t, c)
    IN  [i   |-> i + 1,
         row |-> Loop(cell, str2, [i |-> 1, row |-> <<i>>], 1, Len(str2)).row]

levenshteinDistance(str1, str2) ==
    LET row(t, st) == levRow(str2, t, st)
    IN  Loop(row, str1, [i |-> 1, row |-> [j \in 1..(Len(str2) + 1) |-> j - 1]],
             1, Len(str1)).row[Len(str2) + 1]

\* the test of the numbered name with a single digit allowed
isNumberedVariantOneDigit(base, name) ==
    /\ Len(name) = Len(base) + 1
    /\ StartsWith(name, base)
    /\ name[Len(name)] \in Digits

\* new RegExp(`^${base}[0-9]+$`).test(name)
isNumberedVariant(base, name) ==
    /\ Len(name) > Len(base)
    /\ StartsWith(name, base)
    /\ \A k \in (Len(base) + 1)..Len(name) : name[k] \in Digits

\* _isSimilarTag without its plural/singular guard
isSimilarTagNoPlural(expected, actual) ==
    IF expected = actual THEN TRUE
    ELSE IF isNumberedVariant(expected, actual) THEN TRUE
    ELSE IF isNumberedVariant(actual, expected) THEN TRUE
    ELSE levenshteinDistance(expected, actual) <= 1

isSimilarTag(expected, actual) ==
    IF expected = actual THEN TRUE
    ELSE IF Append(expected, "s") = actual \/ expected = Append(actual, "s") THEN FALSE
    ELSE IF isNumberedVariant(expected, actual) THEN TRUE
    ELSE IF isNumberedVariant(actual, expected) THEN TRUE
    ELSE levenshteinDistance(expected, actual) <= 1

(***************************************************************************)
(* XMLParser._fixMismatchedTags                                            *)
(***************************************************************************)
\* skipRanges: the matches of cdataRegex, commentRegex and piRegex
skipRanges(s) ==
    MatchRanges(cdataEnd, s, 1) \o MatchRanges(commentEnd, s, 1)
        \o MatchRanges(piEnd, s, 1)

shouldSkip(ranges, pos) ==
    \E k \in 1..Len(ranges) : pos >= ranges[k].start /\ pos <= ranges[k].end

MismatchFix(from, to) ==
    [label |-> "Fixed mismatched tag", n |-> 0, from |-> from, to |-> to]

\* a replacement that writes the closing tag's own name back
ReplacementKeepsName(tag, expected) ==
    [position |-> tag.position,
     end      |-> tag.end,
     newTag   |-> <<"<", "/">> \o tag.name \o <<">">>]

\* the entry pushed on replacements: oldTag is the text at position..end
Replacement(tag, expected) ==
    [position |-> tag.position,
     end      |-> tag.end,
     newTag   |-> <<"<", "/">> \o expected.name \o <<">">>]

\* one iteration of the loop over the tags
mismatchStep(ranges, tags, st) ==
    LET tag      == tags[st.i]
        next     == [st EXCEPT !.i = @ + 1]
        expected == st.tagStack[Len(st.tagStack)]
        popped   == SubSeq(st.tagStack, 1, Len(st.tagStack) - 1)
    IN
      IF shouldSkip(ranges, tag.position) THEN next
      ELSE IF tag.isClosing
        THEN IF st.tagStack = <<>> THEN next
             ELSE IF expected.name = tag.name THEN [next EXCEPT !.tagStack = popped]
             ELSE IF isSimilarTag(expected.name, tag.name)
               THEN [next EXCEPT
                       !.replacements = Append(@, Replacement(tag, expected)),
                       !.fixes = Append(@, MismatchFix(tag.name, expected.name)),
                       !.tagStack = popped]
             ELSE next
      ELSE IF ~tag.isSelfClosing
        THEN [next EXCEPT !.tagStack =
                Append(@, [name |-> tag.name, position |-> tag.position])]
      ELSE next

\* the replacements applied from the last one to the first
RECURSIVE applyReplacements(_, _, _)
applyReplacements(s, replacements, i) ==
    IF i = 0 THEN s
    ELSE LET rep == replacements[i]
         IN  applyReplacements(Upto(s, rep.position) \o rep.newTag \o From(s, rep.end + 1),
                               replacements, i - 1)

fixMismatchedTags(xmlString) ==
    LET tags == scanTags(xmlString)
        ranges == skipRanges(xmlString)
        step(ts, st) == mismatchStep(ranges, ts, st)
        acc == Loop(step, tags,
                    [i |-> 1, tagStack |-> <<>>, replacements |-> <<>>, fixes |-> <<>>],
                    1, Len(tags))
    IN  [xml   |-> applyReplacements(xmlString, acc.replacements, Len(acc.replacements)),
         fixes |-> acc.fixes]

(***************************************************************************)
(* XMLParser._fixUnclosedTags                                              *)
(***************************************************************************)
\* tagStack.map(t => t.name).lastIndexOf(name), counted from 0; -1 if absent
lastIndexOfName(tagStack, name) ==
    LET hits == {k \in 1..Len(tagStack) : tagStack[k].name = name}
    IN  IF hits = {} THEN -1 ELSE (CHOOSE k \in hits : \A j \in hits : k >= j) - 1

Insertion(position, name) == [position |-> position, name |-> name]

\* the insertions of while (tagStack.length > indexInStack) tagStack.pop()
popInsertions(tagStack, indexInStack, position) ==
    [k \in 1..(Len(tagStack) - indexInStack) |->
        Insertion(position, tagStack[Len(tagStack) - k + 1].name)]

\* one iteration of the loop over the tags
unclosedStep(tags, st) ==
    LET tag  == tags[st.i]
        next == [st EXCEPT !.i = @ + 1]
        indexInStack == lastIndexOfName(st.tagStack, tag.name)
    IN
      IF tag.isClosing
        THEN IF st.tagStack = <<>> THEN next
             ELSE IF st.tagStack[Len(st.tagStack)].name = tag.name
               THEN [next EXCEPT !.tagStack = SubSeq(@, 1, Len(@) - 1)]
             ELSE IF indexInStack >= 0
               \* the while loop leaves indexInStack entries, the pop after it
               \* removes one more if any is left
               THEN [next EXCEPT
                       !.tagStack = SubSeq(@, 1, IF indexInStack > 0
                                                   THEN indexInStack - 1 ELSE 0),
                       !.insertions = @ \o popInsertions(st.tagStack, indexInStack,
                                                         tag.position)]
             ELSE next
      ELSE IF ~tag.isSelfClosing
        THEN [next EXCEPT !.tagStack =
                Append(@, [name |-> tag.name, position |-> tag.position])]
      ELSE next

\* one closing tag per entry left on the stack, top first, at the end of text
endInsertions(tagStack, endPosition) ==
    [k \in 1..Len(tagStack) |-> Insertion(endPosition, tagStack[Len(tagStack) - k + 1].name)]

\* insertions.sort((a, b) => b.position - a.position): a stable sort
RECURSIVE insertSorted(_, _)
insertSorted(sorted, ins) ==
    IF sorted = <<>> THEN <<ins>>
    ELSE IF Head(sorted).position >= ins.position
      THEN <<Head(sorted)>> \o insertSorted(Tail(sorted), ins)
      ELSE <<ins>> \o sorted

RECURSIVE sortInsertions(_, _)
sortInsertions(insertions, sorted) ==
    IF insertions = <<>> THEN sorted
    ELSE sortInsertions(Tail(insertions), insertSorted(sorted, Head(insertions)))

\* insertions.forEach(...): each spliced into the text at its position
RECURSIVE applyInsertions(_, _)
applyInsertions(s, insertions) ==
    IF insertions = <<>> THEN s
    ELSE LET ins == Head(insertions)
         IN  applyInsertions(Upto(s, ins.position) \o <<"<", "/">> \o ins.name \o <<">", NL>>
                               \o From(s, ins.position),
                             Tail(insertions))

fixUnclosedTags(xmlString) ==
    LET tags == scanTags(xmlString)
        walk == Loop(unclosedStep, tags,
                     [i |-> 1, tagStack |-> <<>>, insertions |-> <<>>], 1, Len(tags))
        insertions == sortInsertions(
                        walk.insertions \o endInsertions(walk.tagStack, Len(xmlString) + 1),
                        <<>>)
    IN  [unclosedTags |-> [k \in 1..Len(insertions) |-> insertions[k].name],
         fixedXml     |-> applyInsertions(xmlString, insertions)]


(***************************************************************************)
(* XMLParser.fix: the attribute rules (Fix 4, Fix 5, Fix 7)                *)
(***************************************************************************)
\* the largest element of a set of positions, 0 for the empty set
MaxOf(ps) == IF ps = {} THEN 0 ELSE CHOOSE p \in ps : \A q \in ps : p >= q

\* s.replace('>', '">') : the first > only
closeQuoteBeforeGt(value) ==
    LET g == NextIn(value, 1, {">"})
    IN  IF g = 0 THEN value ELSE Upto(value, g) \o <<DQ, ">">> \o From(value, g + 1)

\* /(\s[a-zA-Z-]+)="([^"]*>)/ at position p: [^"]* is greedy, so the match
\* ends at the last > before the next quote
unclosedQuoteEnd(s, p) ==
    IF s[p] \notin WS THEN 0
    ELSE LET e == SkipWhile(s, p + 1, AttrNameChars)
             q == NextIn(s, e + 2, {DQ})
             bound == IF q > 0 THEN q - 1 ELSE Len(s)
         IN  IF e > p + 1 /\ e < Len(s) /\ s[e] = "=" /\ s[e + 1] = DQ
               THEN MaxOf({g \in (e + 2)..bound : s[g] = ">"})
               ELSE 0

\* attrName + '="' + value.replace('>', '">')
unclosedQuoteRep(s, p, e) ==
    LET ne == SkipWhile(s, p + 1, AttrNameChars)
    IN  Slice(s, p, ne - 1) \o <<"=", DQ>> \o closeQuoteBeforeGt(Slice(s, ne + 2, e))

\* Fix 4: unclosed attribute quotes
fixUnclosedAttrQuotes(s) == ReplaceAll(unclosedQuoteEnd, unclosedQuoteRep, s, 1)

\* the end of the part of the tag opened at p that [^>]* can cover
tagLimit(s, p) ==
    LET g == NextIn(s, p + 1, {">"}) IN IF g > 0 THEN g - 1 ELSE Len(s)

\* /(<[^>]*\s+)([a-zA-Z-]+)\s+"([^"]*)"/ at position p: the position j of the
\* last whitespace before the attribute name of the match ([^>]* is greedy,
\* so the rightmost name that fits), 0 when the regex does not match
missingEqualsName(s, p) ==
    IF s[p] # "<" THEN 0
    ELSE MaxOf({j \in (p + 1)..tagLimit(s, p) :
            /\ s[j] \in WS
            /\ LET ne == SkipWhile(s, j + 1, AttrNameChars)
                   w  == SkipWhile(s, ne, WS)
               IN  /\ ne > j + 1
                   /\ w > ne
                   /\ w <= Len(s) /\ s[w] = DQ
                   /\ NextIn(s, w + 1, {DQ}) > 0})

missingEqualsEnd(s, p) ==
    LET j == missingEqualsName(s, p)
    IN  IF j = 0 THEN 0
        ELSE NextIn(s, SkipWhile(s, SkipWhile(s, j + 1, AttrNameChars), WS) + 1, {DQ})

\* '$1$2="$3"'
missingEqualsRep(s, p, e) ==
    LET ne == SkipWhile(s, missingEqualsName(s, p) + 1, AttrNameChars)
        w  == SkipWhile(s, ne, WS)
    IN  Slice(s, p, ne - 1) \o <<"=", DQ>> \o Slice(s, w + 1, e - 1) \o <<DQ>>

\* Fix 5: missing equals in attributes
fixMissingEquals(s) == ReplaceAll(missingEqualsEnd, missingEqualsRep, s, 1)

\* the end of the run [^"\s>]+ that starts at i: the first position not in it
valueEnd(s, i) ==
    LET j == NextIn(s, i, WS \cup {DQ, ">"}) IN IF j = 0 THEN Len(s) + 1 ELSE j

\* /(<[^>]+\s+)([a-zA-Z-]+)=([^"\s>]+)(?=[\s>])/ at position p: the position j
\* of the last whitespace before the attribute name of the match, else 0
unquotedAttrName(s, p) ==
    IF s[p] # "<" THEN 0
    ELSE MaxOf({j \in (p + 2)..tagLimit(s, p) :
            /\ s[j] \in WS
            /\ LET ne == SkipWhile(s, j + 1, AttrNameChars)
                   ve == valueEnd(s, ne + 1)
               IN  /\ ne > j + 1
                   /\ ne <= Len(s) /\ s[ne] = "="
                   /\ ve > ne + 1
                   /\ ve <= Len(s) /\ s[ve] \in WS \cup {">"}})

\* the last character of the match: the lookahead is not part of it
unquotedAttrEnd(s, p) ==
    LET j == unquotedAttrName(s, p)
    IN  IF j = 0 THEN 0
        ELSE valueEnd(s, SkipWhile(s, j + 1, AttrNameChars) + 1) - 1

\* '$1$2="$3"'
unquotedAttrRep(s, p, e) ==
    LET ne == SkipWhile(s, unquotedAttrName(s, p) + 1, AttrNameChars)
    IN  Slice(s, p, ne) \o <<DQ>> \o Slice(s, ne + 1, e) \o <<DQ>>

\* Fix 7: unquoted attribute values
quoteAttributes(s) == ReplaceAll(unquotedAttrEnd, unquotedAttrRep, s, 1)

(***************************************************************************)
(* XMLParser._escapeSpecialChars (Fix 6)                                   *)
(***************************************************************************)
\* `__CDATA_PLACEHOLDER_${index}__`, held as one element of the text
Placeholder(index) == "__CDATA_PLACEHOLDER_" \o ToString(index) \o "__"

\* the elements that are placeholders
IsPlaceholder(c) == Len(c) > 1

\* the CDATA sections of the text, in order
cdataSections(s) ==
    LET ranges == MatchRanges(cdataEnd, s, 1)
    IN  [k \in 1..Len(ranges) |-> Slice(s, ranges[k].start, ranges[k].end)]

\* cdataIndex++ at the match that starts at p: the number of earlier matches
cdataIndexAt(s, p) ==
    LET ranges == MatchRanges(cdataEnd, s, 1)
    IN  Cardinality({k \in 1..Len(ranges) : ranges[k].start < p})

placeholderRep(s, p, e) == <<Placeholder(cdataIndexAt(s, p))>>

\* xmlString.replace(cdataRegex, ...): each section becomes its placeholder
hideCdata(s) == ReplaceAll(cdataEnd, placeholderRep, s, 1)

\* the names of /&(?!(amp|lt|gt|quot|apos);)/
EntityNames == {<<"a", "m", "p", ";">>, <<"l", "t", ";">>, <<"g", "t", ";">>,
                <<"q", "u", "o", "t", ";">>, <<"a", "p", "o", "s", ";">>}

bareAmpEnd(text, p) ==
    IF text[p] = "&" /\ ~\E e \in EntityNames : MatchAt(text, p + 1, e) THEN p ELSE 0

ampRep(text, p, e) == <<"&", "a", "m", "p", ";">>

ltEnd(text, p) == IF text[p] = "<" THEN p ELSE 0

ltRep(text, p, e) == <<"&", "l", "t", ";">>

gtEnd(text, p) == IF text[p] = ">" THEN p ELSE 0

gtRep(text, p, e) == <<"&", "g", "t", ";">>

\* the three replaces on one piece of text content
escapeText(text) ==
    ReplaceAll(gtEnd, gtRep,
        ReplaceAll(ltEnd, ltRep,
            ReplaceAll(bareAmpEnd, ampRep, text, 1), 1), 1)

\* text.includes('__CDATA_PLACEHOLDER_')
hasPlaceholder(text) == \E k \in 1..Len(text) : IsPlaceholder(text[k])

\* />([^<]*)</ at position p
betweenTagsEnd(s, p) == IF s[p] = ">" THEN NextIn(s, p + 1, {"<"}) ELSE 0

betweenTagsRep(s, p, e) ==
    LET text == Slice(s, p + 1, e - 1)
    IN  <<">">> \o (IF hasPlaceholder(text) THEN text ELSE escapeText(text)) \o <<"<">>

\* The replacement text String.prototype.replace substitutes for a string
\* replacement: $$ is $, $& the matched text, $` the text before the match,
\* $' the text after it.  A pattern at position p of the replacement:
dollarEnd(r, p) ==
    IF r[p] = "$" /\ p < Len(r) /\ r[p + 1] \in {"$", "&", "`", "'"} THEN p + 1 ELSE 0

substitution(cdata, matched, before, after) ==
    LET expand(r, p, e) ==
            CASE r[e] = "$" -> <<"$">>
              [] r[e] = "&" -> matched
              [] r[e] = "`" -> before
              [] r[e] = "'" -> after
    IN  ReplaceAll(dollarEnd, expand, cdata, 1)

\* cdataSections.forEach: the first occurrence of each placeholder restored
RECURSIVE restoreCdata(_, _, _)
restoreCdata(s, sections, index) ==
    IF index >= Len(sections) THEN s
    ELSE LET at == IndexOf(s, <<Placeholder(index)>>, 1)
         IN  IF at = 0 THEN restoreCdata(s, sections, index + 1)
             ELSE restoreCdata(
                    Upto(s, at)
                      \o substitution(sections[index + 1], <<Placeholder(index)>>,
                                      Upto(s, at), From(s, at + 1))
                      \o From(s, at + 1),
                    sections, index + 1)

escapeSpecialChars(xmlString) ==
    restoreCdata(ReplaceAll(betweenTagsEnd, betweenTagsRep, hideCdata(xmlString), 1),
                 cdataSections(xmlString), 0)

(***************************************************************************)
(* XMLParser.fix: invalid tag names (Fix 8)                                *)
(***************************************************************************)
\* /<([0-9][a-zA-Z0-9-_]*)/ at position p
invalidOpenTagEnd(s, p) ==
    IF s[p] = "<" /\ p < Len(s) /\ s[p + 1] \in Digits
      THEN SkipWhile(s, p + 1, PlainNameChars) - 1 ELSE 0

\* `<tag${tagName}`
invalidOpenTagRep(s, p, e) == <<"<", "t", "a", "g">> \o Slice(s, p + 1, e)

\* /<\/([0-9][a-zA-Z0-9-_]*)/ at position p
invalidCloseTagEnd(s, p) ==
    IF s[p] = "<" /\ p + 1 < Len(s) /\ s[p + 1] = "/" /\ s[p + 2] \in Digits
      THEN SkipWhile(s, p + 2, PlainNameChars) - 1 ELSE 0

\* `</tag${tagName}`
invalidCloseTagRep(s, p, e) == <<"<", "/", "t", "a", "g">> \o Slice(s, p + 2, e)

fixInvalidTagNames(s) ==
    ReplaceAll(invalidCloseTagEnd, invalidCloseTagRep,
        ReplaceAll(invalidOpenTagEnd, invalidOpenTagRep, s, 1), 1)

(***************************************************************************)
(* XMLParser._balanceTags (Fix 9)                                          *)
(***************************************************************************)
\* balanced.replace(fullTag, ''): the first occurrence removed
removeFirst(s, p) ==
    LET at == IndexOf(s, p, 1)
    IN  IF at = 0 THEN s ELSE Upto(s, at) \o From(s, at + Len(p))

RemovedFix(name) ==
    [label |-> "Removed unmatched closing tag", n |-> 0, from |-> name, to |-> <<>>]

BalanceFix(expected, found) ==
    [label |-> "Fixed mismatched tags", n |-> 0, from |-> found, to |-> expected]

\* one iteration of the loop over the matches found in cleanXml
balanceStep(cleanXml, matches, st) ==
    LET current    == matches[st.i]
        next       == [st EXCEPT !.i = @ + 1]
        lastOpened == st.tagStack[Len(st.tagStack)]
    IN
      IF current.isClosing
        THEN IF st.tagStack = <<>>
               THEN [next EXCEPT
                       !.balanced = removeFirst(@, fullTag(cleanXml, current)),
                       !.fixes = Append(@, RemovedFix(current.name))]
               ELSE [next EXCEPT
                       !.tagStack = SubSeq(@, 1, Len(@) - 1),
                       !.fixes = IF lastOpened # current.name
                                   THEN Append(@, BalanceFix(lastOpened, current.name))
                                   ELSE @]
      ELSE IF ~current.isSelfClosing
        THEN [next EXCEPT !.tagStack = Append(@, current.name)]
      ELSE next

balanceTags(xmlString) ==
    LET cleanXml == stripConstructs(xmlString)
        matches  == scanTags(cleanXml)
        step(ms, st) == balanceStep(cleanXml, ms, st)
        st == Loop(step, matches,
                   [i |-> 1, tagStack |-> <<>>, balanced |-> xmlString, fixes |-> <<>>],
                   1, Len(matches))
    IN  [xml |-> st.balanced, fixes |-> st.fixes]

(***************************************************************************)
(* XMLParser.fix without AI options                                        *)
(***************************************************************************)
\* '<?xml version="1.0" encoding="UTF-8"?>\n'
Declaration ==
    <<"<", "?", "x", "m", "l", " ",
      "v", "e", "r", "s", "i", "o", "n", "=", DQ, "1", ".", "0", DQ, " ",
      "e", "n", "c", "o", "d", "i", "n", "g", "=", DQ, "U", "T", "F", "-", "8", DQ,
      "?", ">", NL>>

addDeclaration(s) ==
    IF ~StartsWith(Trim(s), <<"<", "?", "x", "m", "l">>) THEN Declaration \o s ELSE s

UnclosedFix(names) ==
    [label |-> "Fixed unclosed tag(s)", n |-> Len(names), from |-> names, to |-> <<>>]

\* Fix 1
xmlFix1(st) == Step(st, addDeclaration(st.fixed), Fix("Added XML declaration"))

\* a step whose rule returns the new text with its own fixes: the text is
\* taken only when the rule reports a fix
StepWith(st, xml, fixes) ==
    IF Len(fixes) > 0
      THEN [fixed |-> xml, fixes |-> st.fixes \o fixes]
      ELSE [fixed |-> st.fixed, fixes |-> st.fixes]

xmlFix2Apply(st, mismatchResultEarly) ==
    StepWith(st, mismatchResultEarly.xml, mismatchResultEarly.fixes)

\* Fix 2
xmlFix2(st) == xmlFix2Apply(st, fixMismatchedTags(st.fixed))

xmlFix3Apply(st, unclosed) ==
    StepWith(st, unclosed.fixedXml,
             IF Len(unclosed.unclosedTags) > 0
               THEN <<UnclosedFix(unclosed.unclosedTags)>> ELSE <<>>)

\* Fix 3
xmlFix3(st) == xmlFix3Apply(st, fixUnclosedTags(st.fixed))

\* Fix 4
xmlFix4(st) == Step(st, fixUnclosedAttrQuotes(st.fixed), Fix("Fixed unclosed attribute quotes"))

\* Fix 5
xmlFix5(st) == Step(st, fixMissingEquals(st.fixed), Fix("Fixed missing equals in attributes"))

\* Fix 6
xmlFix6(st) ==
    Step(st, escapeSpecialChars(st.fixed), Fix("Escaped special characters in text content"))

\* Fix 7
xmlFix7(st) == Step(st, quoteAttributes(st.fixed), Fix("Added quotes to unquoted attributes"))

\* Fix 8
xmlFix8(st) == Step(st, fixInvalidTagNames(st.fixed), Fix("Fixed invalid tag names"))

xmlFix9Apply(st, balancedResult) == StepWith(st, balancedResult.xml, balancedResult.fixes)

\* Fix 9
xmlFix9(st) == xmlFix9Apply(st, balanceTags(st.fixed))

\* the object the rule pipeline returns, from the validation of the repaired text
xmlFixResult(xmlString, st, parseResult) ==
    [original |-> xmlString,
     fixes    |-> st.fixes,
     fixed    |-> st.fixed,
     success  |-> parseResult.success,
     data     |-> parseResult.data,
     errors   |-> parseResult.errors,
     method   |-> "rules",
     canTryAI |-> ~parseResult.success]

xmlFixValidate(xmlString, st) == xmlFixResult(xmlString, st, XMLparse(st.fixed))

\* the step of fix that st.i numbers, on the running text and fixes list
xmlFixRule(st) ==
    CASE st.i = 1 -> xmlFix1(st)
      [] st.i = 2 -> xmlFix2(st)
      [] st.i = 3 -> xmlFix3(st)
      [] st.i = 4 -> xmlFix4(st)
      [] st.i = 5 -> xmlFix5(st)
      [] st.i = 6 -> xmlFix6(st)
      [] st.i = 7 -> xmlFix7(st)
      [] st.i = 8 -> xmlFix8(st)
      [] st.i = 9 -> xmlFix9(st)

xmlFixStep(xmlString, st) == Then(st, xmlFixRule(st))

\* the rule pipeline of fix, entered when no critical error is detected
XMLfixRules(xmlString) ==
    xmlFixValidate(xmlString,
        Loop(xmlFixStep, xmlString,
             [i |-> 1, fixed |-> xmlString, fixes |-> <<>>], 1, 9))

\* the object fix returns when a critical error is detected; method, which
\* this object does not carry, is "none"
xmlFixRejected(xmlString, criticalErrors) ==
    [original |-> xmlString,
     fixes    |-> <<>>,
     fixed    |-> xmlString,
     success  |-> FALSE,
     data     |-> NoData,
     errors   |-> criticalErrors,
     method   |-> "none",
     canTryAI |-> TRUE]

xmlFixPreflight(xmlString, criticalErrors) ==
    IF Len(criticalErrors) > 0
      THEN xmlFixRejected(xmlString, criticalErrors)
      ELSE XMLfixRules(xmlString)

\* XMLParser.fix(xmlString) with options = {}
XMLfix(xmlString) == xmlFixPreflight(xmlString, detectCriticalErrors(xmlString))

(***************************************************************************)
(* The generative fallback.  The model and the tokenizer are arguments of  *)
(* the call; options says what they do when called: encode, generate and   *)
(* decode each return or throw, and generated is the text decode returns.  *)
(* A call leaves a run: whether it threw, the value it returned, and the   *)
(* events of the call in order: the rule-based attempts with their         *)
(* outcome, and the calls on the tokenizer, the model and parse.           *)
(***************************************************************************)
\* fix called with one argument, or with useAI false
NoOptions ==
    [useAI |-> FALSE, encode |-> "returns", generate |-> "returns",
     decode |-> "returns", generated |-> <<>>]

\* options.useAI && options.model && options.tokenizer
UsesAI(options) == options.useAI

Event(call, ok) == [call |-> call, ok |-> ok]

Returned(value, events) == [raised |-> FALSE, result |-> value, events |-> events]

\* the call threw: there is no returned value
Raised(events) == [raised |-> TRUE, result |-> <<>>, events |-> events]

\* the smallest element of a set of positions, 0 for the empty set
MinOf(ps) == IF ps = {} THEN 0 ELSE CHOOSE p \in ps : \A q \in ps : p <= q

\* generated.match(/<\?xml[\s\S]*|<[a-zA-Z][\s\S]*/): match[0], and <<>>
\* for null
xmlMatchAt(s, p) ==
    \/ MatchAt(s, p, <<"<", "?", "x", "m", "l">>)
    \/ s[p] = "<" /\ p < Len(s) /\ s[p + 1] \in Letters

extractXml(generated) ==
    IF MinOf({p \in 1..Len(generated) : xmlMatchAt(generated, p)}) = 0
      THEN <<>>
      ELSE From(generated, MinOf({p \in 1..Len(generated) : xmlMatchAt(generated, p)}))

\* the object fixWithAI returns for a generated text that parses
xmlAiResult(xmlString, ruleFix, aiFixed, parseResult) ==
    [success  |-> TRUE,
     fixed    |-> aiFixed,
     original |-> xmlString,
     fixes    |-> <<Fix("AI-powered fix applied")>> \o ruleFix.fixes,
     data     |-> parseResult.data,
     errors   |-> <<>>,
     method   |-> "ai"]

\* { ...ruleFix, method: 'rules' }
xmlBestAttempt(ruleFix) == [ruleFix EXCEPT !.method = "rules"]

\* fixWithAI once the span is extracted: parse decides; on a span that
\* fails, the model is asked once more
xmlAiValidateRetrying(xmlString, ruleFix, aiFixed, parseResult, events) ==
    IF parseResult.success
      THEN Returned(xmlAiResult(xmlString, ruleFix, aiFixed, parseResult),
                    Append(events, Event("parse", TRUE)))
      ELSE Returned(xmlBestAttempt(ruleFix),
                    events \o <<Event("parse", FALSE), Event("generate", TRUE)>>)

\* fixWithAI once the span is extracted: parse decides
xmlAiValidate(xmlString, ruleFix, aiFixed, parseResult, events) ==
    IF parseResult.success
      THEN Returned(xmlAiResult(xmlString, ruleFix, aiFixed, parseResult),
                    Append(events, Event("parse", TRUE)))
      ELSE Returned(xmlBestAttempt(ruleFix),
                    Append(events, Event("parse", FALSE)))

xmlAiExtract(xmlString, ruleFix, xmlMatch, events) ==
    IF xmlMatch # <<>>
      THEN xmlAiValidate(xmlString, ruleFix, xmlMatch, XMLparse(xmlMatch), events)
      ELSE Returned(xmlBestAttempt(ruleFix), events)

\* the try block of fixWithAI: a throw of generate or decode is caught
xmlAiGenerate(xmlString, ruleFix, options, events) ==
    IF options.generate = "throws"
      THEN Returned(xmlBestAttempt(ruleFix), Append(events, Event("generate", FALSE)))
    ELSE IF options.decode = "throws"
      THEN Returned(xmlBestAttempt(ruleFix),
                    events \o <<Event("generate", TRUE), Event("decode", FALSE)>>)
    ELSE xmlAiExtract(xmlString, ruleFix, extractXml(options.generated),
                      events \o <<Event("generate", TRUE), Event("decode", TRUE)>>)

\* fixWithAI that asks the model whatever the rules returned
xmlAiFallbackAlways(xmlString, ruleFix, options, events) ==
    IF options.encode = "throws"
      THEN Raised(events \o <<Event("rules", ruleFix.success), Event("encode", FALSE)>>)
      ELSE xmlAiGenerate(xmlString, ruleFix, options,
               events \o <<Event("rules", ruleFix.success), Event("encode", TRUE)>>)

\* fixWithAI after its rule-based attempt ruleFix; tokenizer.encode is
\* called outside the try block
xmlAiFallback(xmlString, ruleFix, options, events) ==
    IF ruleFix.success
      THEN Returned(ruleFix, Append(events, Event("rules", TRUE)))
    ELSE IF options.encode = "throws"
      THEN Raised(events \o <<Event("rules", FALSE), Event("encode", FALSE)>>)
    ELSE xmlAiGenerate(xmlString, ruleFix, options,
             events \o <<Event("rules", FALSE), Event("encode", TRUE)>>)

\* XMLParser.fixWithAI(xmlString, model, tokenizer) entered after events
xmlFixWithAIAfter(xmlString, options, events) ==
    xmlAiFallback(xmlString, XMLfix(xmlString), options, events)

XMLfixWithAI(xmlString, options) == xmlFixWithAIAfter(xmlString, options, <<>>)

\* the end of fix: the fallback when the final parse failed
xmlFixFallback(xmlString, options, ruleResult) ==
    IF ~ruleResult.success /\ UsesAI(options)
      THEN xmlFixWithAIAfter(xmlString, options, <<Event("rules", FALSE)>>)
      ELSE Returned(ruleResult, <<Event("rules", ruleResult.success)>>)

\* the start of fix: the pre-flight check
xmlFixWithOptionsPreflight(xmlString, options, criticalErrors) ==
    IF Len(criticalErrors) > 0
      THEN IF UsesAI(options)
             THEN xmlFixWithAIAfter(xmlString, options, <<Event("preflight", FALSE)>>)
             ELSE Returned(xmlFixRejected(xmlString, criticalErrors),
                           <<Event("preflight", FALSE)>>)
      ELSE xmlFixFallback(xmlString, options, XMLfixRules(xmlString))

\* XMLParser.fix(xmlString, options)
XMLfixWithOptions(xmlString, options) ==
    xmlFixWithOptionsPreflight(xmlString, options, detectCriticalErrors(xmlString))

\* generated.match(/\{[\s\S]*\}|\[[\s\S]*\]/): match[0], and <<>> for null
lastOf(s, c) == MaxOf({q \in 1..Len(s) : s[q] = c})

jsonMatchAt(s, p) ==
    \/ s[p] = "{" /\ lastOf(s, "}") > p
    \/ s[p] = "[" /\ lastOf(s, "]") > p

jsonMatchFrom(s, p) ==
    IF p = 0 THEN <<>>
    ELSE IF s[p] = "{" /\ lastOf(s, "}") > p THEN Slice(s, p, lastOf(s, "}"))
    ELSE Slice(s, p, lastOf(s, "]"))

extractJson(generated) ==
    jsonMatchFrom(generated, MinOf({p \in 1..Len(generated) : jsonMatchAt(generated, p)}))

jsonAiResult(jsonString, ruleFix, aiFixed, parseResult) ==
    [success  |-> TRUE,
     fixed    |-> aiFixed,
     original |-> jsonString,
     fixes    |-> <<Fix("AI-powered fix applied")>> \o ruleFix.fixes,
     data     |-> parseResult.data,
     errors   |-> <<>>,
     method   |-> "ai"]

\* { ...ruleFix, method: 'rules' }
jsonBestAttempt(ruleFix) ==
    [success  |-> ruleFix.success,
     fixed    |-> ruleFix.fixed,
     original |-> ruleFix.original,
     fixes    |-> ruleFix.fixes,
     data     |-> ruleFix.data,
     errors   |-> ruleFix.errors,
     method   |-> "rules"]

\* fixWithAI once the span is extracted, the span taken without parse
jsonAiValidateUnchecked(jsonString, ruleFix, aiFixed, parseResult, events) ==
    Returned(jsonAiResult(jsonString, ruleFix, aiFixed, parseResult),
             Append(events, Event("parse", parseResult.success)))

jsonAiValidate(jsonString, ruleFix, aiFixed, parseResult, events) ==
    IF parseResult.success
      THEN Returned(jsonAiResult(jsonString, ruleFix, aiFixed, parseResult),
                    Append(events, Event("parse", TRUE)))
      ELSE Returned(jsonBestAttempt(ruleFix),
                    Append(events, Event("parse", FALSE)))

jsonAiExtract(jsonString, ruleFix, jsonMatch, events) ==
    IF jsonMatch # <<>>
      THEN jsonAiValidate(jsonString, ruleFix, jsonMatch, JSONparse(jsonMatch), events)
      ELSE Returned(jsonBestAttempt(ruleFix), events)

jsonAiGenerate(jsonString, ruleFix, options, events) ==
    IF options.generate = "throws"
      THEN Returned(jsonBestAttempt(ruleFix), Append(events, Event("generate", FALSE)))
    ELSE IF options.decode = "throws"
      THEN Returned(jsonBestAttempt(ruleFix),
                    events \o <<Event("generate", TRUE), Event("decode", FALSE)>>)
    ELSE jsonAiExtract(jsonString, ruleFix, extractJson(options.generated),
                       events \o <<Event("generate", TRUE), Event("decode", TRUE)>>)

jsonAiFallback(jsonString, ruleFix, options, events) ==
    IF ruleFix.success
      THEN Returned(ruleFix, Append(events, Event("rules", TRUE)))
    ELSE IF options.encode = "throws"
      THEN Raised(events \o <<Event("rules", FALSE), Event("encode", FALSE)>>)
    ELSE jsonAiGenerate(jsonString, ruleFix, options,
             events \o <<Event("rules", FALSE), Event("encode", TRUE)>>)

\* JSONParser.fixWithAI(jsonString, model, tokenizer)
JSONfixWithAI(jsonString, options) ==
    jsonAiFallback(jsonString, JSONfix(jsonString), options, <<>>)

\* JSONParser.fix(jsonString, options): fix has one parameter, the second
\* argument is not read
jsonFixIgnoringOptions(jsonString, options, ruleResult) ==
    Returned(ruleResult, <<Event("rules", ruleResult.success)>>)

JSONfixWithOptions(jsonString, options) ==
    jsonFixIgnoringOptions(jsonString, options, JSONfix(jsonString))

(***************************************************************************)
(* validate of the two engines: findings line by line, then parse          *)
(***************************************************************************)
\* s.split('\n')
RECURSIVE SplitLines(_)
SplitLines(s) ==
    IF IndexOf(s, <<NL>>, 1) = 0 THEN <<s>>
    ELSE <<Slice(s, 1, IndexOf(s, <<NL>>, 1) - 1)>>
             \o SplitLines(Slice(s, IndexOf(s, <<NL>>, 1) + 1, Len(s)))

\* regex.test(s)
Test(End(_, _), s) == \E p \in 1..Len(s) : End(s, p) > 0

\* an entry of issues
Issue(line, type, severity) == [line |-> line, type |-> type, severity |-> severity]

\* /,\s*[}\]]/
lineTrailingCommaEnd(s, p) ==
    IF s[p] = "," /\ SkipWhile(s, p + 1, WS) <= Len(s)
        /\ s[SkipWhile(s, p + 1, WS)] \in {"}", "]"}
      THEN SkipWhile(s, p + 1, WS) ELSE 0

\* where /[{,]\s*[a-zA-Z_][a-zA-Z0-9_]*\s*:/ , with its key at j, ends
lineKeyEndFrom(s, j) ==
    IF j <= Len(s) /\ s[j] \in (IdentStart \ {"$"})
        /\ SkipWhile(s, SkipWhile(s, j + 1, IdentChars \ {"$"}), WS) <= Len(s)
        /\ s[SkipWhile(s, SkipWhile(s, j + 1, IdentChars \ {"$"}), WS)] = ":"
      THEN SkipWhile(s, SkipWhile(s, j + 1, IdentChars \ {"$"}), WS) ELSE 0

lineUnquotedKeyEnd(s, p) ==
    IF s[p] \in {"{", ","} THEN lineKeyEndFrom(s, SkipWhile(s, p + 1, WS)) ELSE 0

\* /'[^']*'/
lineSingleQuotesEnd(s, p) == IF s[p] = SQ THEN IndexOf(s, <<SQ>>, p + 1) ELSE 0

\* /\/\/|\/\*/
lineCommentEnd(s, p) ==
    IF MatchAt(s, p, <<"/", "/">>) \/ MatchAt(s, p, <<"/", "*">>) THEN p + 1 ELSE 0

\* the findings of JSONParser.validate on the line numbered index + 1
jsonLineIssues(line, index) ==
    (IF Test(lineTrailingCommaEnd, line)
       THEN <<Issue(index + 1, "trailing_comma", "error")>> ELSE <<>>)
    \o (IF Test(lineUnquotedKeyEnd, line)
          THEN <<Issue(index + 1, "unquoted_key", "error")>> ELSE <<>>)
    \o (IF Test(lineSingleQuotesEnd, line)
          THEN <<Issue(index + 1, "single_quotes", "warning")>> ELSE <<>>)
    \o (IF Test(lineCommentEnd, line)
          THEN <<Issue(index + 1, "comment", "error")>> ELSE <<>>)

\* lines.forEach of JSONParser.validate
jsonIssues(lines) == Concat([k \in 1..Len(lines) |-> jsonLineIssues(lines[k], k - 1)])

\* the object validate returns
validateResult(issues, parseResult) ==
    [valid  |-> parseResult.success,
     issues |-> issues \o parseResult.errors,
     data   |-> parseResult.data]

\* JSONParser.validate
JSONvalidate(jsonString) ==
    validateResult(jsonIssues(SplitLines(jsonString)), JSONparse(jsonString))

\* /=\s*[^"'\s>]/
lineUnquotedAttributeEnd(s, p) ==
    IF s[p] = "=" /\ SkipWhile(s, p + 1, WS) <= Len(s)
        /\ s[SkipWhile(s, p + 1, WS)] \notin {DQ, SQ, ">"}
      THEN SkipWhile(s, p + 1, WS) ELSE 0

\* the findings of XMLParser.validate on the line numbered index + 1
xmlLineIssues(line, index) ==
    (IF Test(bareAmpEnd, line)
       THEN <<Issue(index + 1, "unescaped_ampersand", "error")>> ELSE <<>>)
    \o (IF Test(lineUnquotedAttributeEnd, line)
          THEN <<Issue(index + 1, "unquoted_attribute", "error")>> ELSE <<>>)

\* the declaration check and lines.forEach of XMLParser.validate
xmlIssues(xmlString, lines) ==
    (IF ~StartsWith(Trim(xmlString), <<"<", "?", "x", "m", "l">>)
       THEN <<Issue(1, "missing_declaration", "warning")>> ELSE <<>>)
    \o Concat([k \in 1..Len(lines) |-> xmlLineIssues(lines[k], k - 1)])

\* XMLParser.validate
XMLvalidate(xmlString) ==
    validateResult(xmlIssues(xmlString, SplitLines(xmlString)), XMLparse(xmlString))

(***************************************************************************)
(* The parser instance.  Arrays are objects: the heap holds the arrays the *)
(* instance's calls have created, and a value refers to an array by its    *)
(* address, so that a result that shares an array with the instance is     *)
(* told from one that holds its own.  instance.errors is the address of    *)
(* this.errors.  A call leaves the instance and the value it returned.     *)
(***************************************************************************)
\* the instance when this.errors is kept from the call before
keepErrors(inst) == inst

\* this.errors = []
resetErrors(inst) ==
    [heap |-> Append(inst.heap, <<>>), errors |-> Len(inst.heap) + 1]

\* this.errors.push(e)
pushError(inst, e) == [inst EXCEPT !.heap[inst.errors] = Append(@, e)]

\* an array literal or a spread: a new array holding items, at the last address
newArray(inst, items) == [inst EXCEPT !.heap = Append(@, items)]

\* the call returns value, whose field holds the array created last
ReturnsNew(inst, value, field) ==
    [inst |-> inst, value |-> [value EXCEPT ![field] = Len(inst.heap)]]

\* the call returns value, whose field holds this.errors
ReturnsErrors(inst, value, field) ==
    [inst |-> inst, value |-> [value EXCEPT ![field] = inst.errors]]

\* the value with its arrays read from the heap
Resolve(value, heap) ==
    [f \in DOMAIN value |->
        IF f \in {"errors", "issues"} THEN heap[value[f]] ELSE value[f]]

\* JSONParser.parse after this.errors = []
jsonParseReset(inst, parsed) ==
    IF parsed.success
      THEN ReturnsNew(newArray(inst, <<>>), parsed, "errors")
      ELSE ReturnsErrors(pushError(inst, parsed.errors[1]), parsed, "errors")

\* JSONParser.parse on the instance
jsonParseOn(inst, jsonString) == jsonParseReset(resetErrors(inst), JSONparse(jsonString))

\* fix once parse has returned: errors is parseResult.errors
fixReturns(call, fixResult) ==
    [inst |-> call.inst, value |-> [fixResult EXCEPT !.errors = call.value.errors]]

jsonFixParsed(inst, jsonString, st) ==
    fixReturns(jsonParseOn(inst, st.fixed), jsonFixValidate(jsonString, st))

\* JSONParser.fix on the instance
jsonFixOn(inst, jsonString) ==
    jsonFixParsed(inst, jsonString,
        Loop(jsonFixStep, jsonString,
             [i |-> 1, fixed |-> jsonString, fixes |-> <<>>], 1, 12))

\* validate once parse has returned: issues is [...issues, ...parseResult.errors]
validateReturns(call, validation) ==
    ReturnsNew(newArray(call.inst, validation.issues), validation, "issues")

\* JSONParser.validate on the instance
jsonValidateOn(inst, jsonString) ==
    validateReturns(jsonParseOn(inst, jsonString), JSONvalidate(jsonString))

\* XMLParser.parse on the instance: _validateXMLStructure returns its own array
xmlParseOn(inst, xmlString) ==
    ReturnsNew(newArray(resetErrors(inst), XMLparse(xmlString).errors),
               XMLparse(xmlString), "errors")

xmlFixParsed(inst, xmlString, st) ==
    fixReturns(xmlParseOn(inst, st.fixed), xmlFixValidate(xmlString, st))

\* XMLParser.fix on the instance: rejected with the array of
\* _detectCriticalErrors, or the rules and parse
xmlFixOnPreflight(inst, xmlString, criticalErrors) ==
    IF Len(criticalErrors) > 0
      THEN ReturnsNew(newArray(inst, criticalErrors),
                      xmlFixRejected(xmlString, criticalErrors), "errors")
      ELSE xmlFixParsed(inst, xmlString,
               Loop(xmlFixStep, xmlString,
                    [i |-> 1, fixed |-> xmlString, fixes |-> <<>>], 1, 9))

xmlFixOn(inst, xmlString) ==
    xmlFixOnPreflight(inst, xmlString, detectCriticalErrors(xmlString))

\* XMLParser.validate on the instance
xmlValidateOn(inst, xmlString) ==
    validateReturns(xmlParseOn(inst, xmlString), XMLvalidate(xmlString))

(***************************************************************************)
(* The texts the engines are run on                                        *)
(***************************************************************************)
\* the largest number of tokens of an XML text
MaxTokens == 3

\* the largest number of members of a JSON text
MaxMembers == 3

\* tags and text an XML text is made of
XmlTokens ==
    {<<"<", "r", "o", "o", "t", ">">>,
     <<"<", "/", "r", "o", "o", "t", ">">>,
     <<"<", "i", "t", "e", "m", ">">>,
     <<"<", "/", "i", "t", "e", "m", ">">>,
     <<"<", "i", "t", "e", "m", "s", ">">>,
     <<"<", "/", "i", "t", "e", "m", "s", ">">>,
     <<"<", "/", "i", "t", "e", "m", "1", ">">>,
     <<"v">>,
     <<"<", "i", "t", "e", "m", "/", ">">>,
     <<"<", "r", "o", "o", "t", " ", "t", "a", "g", ">">>,
     <<"<", "!", "-", "-", "<", "i", "t", "e", "m", ">", "-", "-", ">">>,
     <<"<", "!", "[", "C", "D", "A", "T", "A", "[", "<", "i", "t", "e", "m", ">", "]", "]", ">">>}

\* the documents the specification's scenarios and the repository's tests name
MissingClosingTag == 
    <<"<", "r", "o", "o", "t", ">", "<", "i", "t", "e", "m", ">", "v", "<", "/", "r", "o", "o", "t", ">">>

MultipleUnclosedTags == 
    <<"<", "r", "o", "o", "t", ">", "<", "i", "t", "e", "m", "1", ">", "<", "i", "t", "e", "m", "2", ">", "v", "a", "l", "u", "e">>

MismatchedTagName == 
    <<"<", "p", "r", "o", "d", "u", "c", "t", ">", "v", "<", "/", "p", "r", "o", "d", "u", "c", "t", "1", ">">>

PluralAndSingular == 
    <<"<", "i", "t", "e", "m", "s", ">", "<", "i", "t", "e", "m", ">", "x", "<", "/", "i", "t", "e", "m", "s", ">">>

TwoRoots == 
    <<"<", "i", "t", "e", "m", ">", "1", "<", "/", "i", "t", "e", "m", ">", "<", "i", "t", "e", "m", ">", "2", "<", "/", "i", "t", "e", "m", ">">>

CdataSection == 
    <<"<", "r", "o", "o", "t", ">", "<", "!", "[", "C", "D", "A", "T", "A", "[", "<", "d", "a", "t", "a", ">", "]", "]", ">", "<", "/", "r", "o", "o", "t", ">">>

XmlComment == 
    <<"<", "r", "o", "o", "t", ">", "<", "!", "-", "-", " ", "c", "o", "m", "m", "e", "n", "t", " ", "-", "-", ">", "<", "i", "t", "e", "m", ">", "v", "a", "l", "u", "e", "<", "/", "i", "t", "e", "m", ">", "<", "/", "r", "o", "o", "t", ">">>

\* a document that carries its declaration
DeclaredDocument ==
    <<"<", "?", "x", "m", "l", " ", "v", "e", "r", "s", "i", "o", "n", "=", DQ, "1", ".", "0", DQ, "?", ">", "<", "r", "o", "o", "t", ">", "<", "i", "t", "e", "m", ">", "t", "e", "s", "t", "<", "/", "i", "t", "e", "m", ">", "<", "/", "r", "o", "o", "t", ">">>

\* the declared document written after white space, after a comment, and
\* with its last closing tag missing
DeclaredTexts ==
    {DeclaredDocument,
     <<" ", NL>> \o DeclaredDocument,
     <<"<", "!", "-", "-", "c", "-", "-", ">">> \o DeclaredDocument,
     SubSeq(DeclaredDocument, 1, Len(DeclaredDocument) - 7)}

XmlScenarios ==
    {MissingClosingTag, MultipleUnclosedTags, MismatchedTagName, PluralAndSingular,
     TwoRoots, CdataSection, XmlComment} \cup DeclaredTexts

XmlTokenTexts == {Concat(d) : d \in UNION {[1..n -> XmlTokens] : n \in 0..MaxTokens}}

XmlTexts == XmlTokenTexts \cup XmlScenarios

\* "https://example.com"
UrlLiteral ==
    <<DQ>> \o <<"h", "t", "t", "p", "s", ":", "/", "/", "e", "x", "a", "m", "p", "l", "e", ".", "c", "o", "m">>
         \o <<DQ>>

\* the member values of a JSON text:
\*   a number
\*   a string with an apostrophe
\*   a string holding a URL
\*   a string with an escaped backslash
\*   a number with leading zeros
\*   a string left open at the end of a line
\*   a JavaScript literal
\*   a single-quoted string
JsonValues ==
    {<<"1">>,
     <<DQ, "i", "t", SQ, "s", DQ>>,
     UrlLiteral,
     <<DQ, "C", ":", BS, BS, "d", DQ>>,
     <<"0", "0", "1">>,
     <<DQ, "u", NL>>,
     <<"N", "a", "N">>,
     <<SQ, "s", SQ>>}

\* the k-th key
KeyNames == <<"a", "b", "c", "d", "e", "f", "g", "h">>

\* an object text is written strictly ("valid") or with one defect
JsonShapes == {"valid", "unclosed", "trailingComma", "missingCommas",
               "unquotedKeys", "missingOpen"}

Member(shape, k, value) ==
    (IF shape = "unquotedKeys" THEN <<KeyNames[k]>> ELSE <<DQ, KeyNames[k], DQ>>)
        \o <<":", " ">> \o value

RECURSIVE Members(_, _, _)
Members(shape, values, k) ==
    IF k > Len(values) THEN <<>>
    ELSE (IF k = 1 THEN <<>>
          ELSE IF shape = "missingCommas" THEN <<" ">> ELSE <<",", " ">>)
           \o Member(shape, k, values[k]) \o Members(shape, values, k + 1)

JsonDocument(shape, values) ==
    (IF shape = "missingOpen" THEN <<>> ELSE <<"{">>)
        \o Members(shape, values, 1)
        \o (CASE shape = "unclosed"      -> <<>>
              [] shape = "trailingComma" -> <<",", "}">>
              [] OTHER                   -> <<"}">>)

\* '{"name": "test", "nested": {"value": 123}'
MissingClosingBrace ==
    <<"{", DQ, "n", "a", "m", "e", DQ, ":", " ", DQ, "t", "e", "s", "t", DQ, ",", " ", DQ, "n", "e", "s", "t", "e", "d", DQ, ":", " ", "{", DQ, "v", "a", "l", "u", "e", DQ, ":", " ", "1", "2", "3", "}">>

\* objects and arrays nested in each other
NestedDocuments ==
    {<<"{", DQ, "a", DQ, ":", " ", "[", "1", ",", " ", "2", "]", "}">>,
     <<"[", "{", DQ, "a", DQ, ":", " ", "1", "}", "]">>,
     <<"{", DQ, "a", DQ, ":", " ", "{", DQ, "b", DQ, ":", " ", "1", "}", "}">>,
     <<"[", "[", "1", "]", "]">>}

\* the nested documents without their last closing character, and without
\* their last two
TruncatedDocuments ==
    {SubSeq(d, 1, Len(d) - k) : d \in NestedDocuments, k \in {1, 2}}
        \cup {MissingClosingBrace}

JsonTexts ==
    {JsonDocument(shape, values) :
        shape \in JsonShapes,
        values \in UNION {[1..n -> JsonValues] : n \in 0..MaxMembers}}
        \cup TruncatedDocuments

(***************************************************************************)
(* The state machine: a text is handed to an engine's fix                  *)
(* (InferenceEngine.fixJSON / fixXML without AI), and the fixed text may   *)
(* be handed to fix once more.                                             *)
(***************************************************************************)
\* the value of result and second before fix has returned
NoResult ==
    [original |-> <<>>, fixes |-> <<>>, fixed |-> <<>>, success |-> FALSE,
     data |-> NoData, errors |-> <<>>]

\* a parser as its constructor leaves it: this.errors = []
NewParser == [heap |-> << <<>> >>, errors |-> 1]

\* no options are given, nothing has thrown, and no call has returned
Untouched ==
    /\ aiOptions = NoOptions
    /\ threw = FALSE
    /\ trace = <<>>
    /\ instance = NewParser
    /\ returned = <<>>

InitJSON ==
    /\ engine = "json"
    /\ input \in JsonTexts
    /\ pc = "ready"
    /\ result = NoResult
    /\ second = NoResult
    /\ Untouched

InitXML ==
    /\ engine = "xml"
    /\ input \in XmlTexts
    /\ pc = "ready"
    /\ result = NoResult
    /\ second = NoResult
    /\ Untouched

Init == InitJSON \/ InitXML

\* InferenceEngine.fixJSON(input, false)
JsonFix ==
    /\ pc = "ready"
    /\ engine = "json"
    /\ result' = JSONfix(input)
    /\ pc' = "fixed"
    /\ UNCHANGED <<engine, input, second, aiOptions, threw, trace, instance, returned>>

\* InferenceEngine.fixXML(input, false)
XmlFix ==
    /\ pc = "ready"
    /\ engine = "xml"
    /\ result' = XMLfix(input)
    /\ pc' = "fixed"
    /\ UNCHANGED <<engine, input, second, aiOptions, threw, trace, instance, returned>>

\* fixJSON on the text the first call returned
JsonFixAgain ==
    /\ pc = "fixed"
    /\ engine = "json"
    /\ second' = JSONfix(result.fixed)
    /\ pc' = "refixed"
    /\ UNCHANGED <<engine, input, result, aiOptions, threw, trace, instance, returned>>

\* fixXML on the text the first call returned
XmlFixAgain ==
    /\ pc = "fixed"
    /\ engine = "xml"
    /\ second' = XMLfix(result.fixed)
    /\ pc' = "refixed"
    /\ UNCHANGED <<engine, input, result, aiOptions, threw, trace, instance, returned>>

NextJSON == JsonFix \/ JsonFixAgain

NextXML == XmlFix \/ XmlFixAgain

Next == NextJSON \/ NextXML

Spec == Init /\ [][Next]_vars

\* the JSON engine alone
SpecJSON == InitJSON /\ [][NextJSON]_vars

\* the XML engine alone
SpecXML == InitXML /\ [][NextXML]_vars

(***************************************************************************)
(* The state machine with the generative fallback: a text is handed to an  *)
(* engine's fix together with the model and the tokenizer, as              *)
(* InferenceEngine.fixJSON / fixXML do with useAI and a loaded model, or   *)
(* to the engine's fixWithAI.                                              *)
(***************************************************************************)
\* the texts decode may return
Generated ==
    {<<>>,
     <<"s", "o", "r", "r", "y">>,
     <<"F", "i", "x", "e", "d", ":", " ", "<", "r", "o", "o", "t", ">", "<", "/", "r", "o", "o", "t", ">">>,
     <<"<", "r", "o", "o", "t", ">">>,
     <<"{", DQ, "a", DQ, ":", " ", "1", "}">>,
     <<"o", "k", " ", "{", DQ, "a", DQ, ":", " ", "1", "}", " ", "}">>,
     <<"{", DQ, "a", DQ, ":", " ", "}">>}

Outcomes == {"returns", "throws"}

\* the model and the tokenizer handed to fix
AiOptions ==
    [useAI : {TRUE}, encode : Outcomes, generate : Outcomes, decode : Outcomes,
     generated : Generated]

\* the texts handed to fix together with them
AiXmlTexts == XmlScenarios \cup XmlTokens

AiJsonTexts == {JsonDocument(shape, <<v>>) : shape \in JsonShapes, v \in JsonValues}

InitAI ==
    /\ \/ engine = "json" /\ input \in AiJsonTexts
       \/ engine = "xml" /\ input \in AiXmlTexts
    /\ pc = "ready"
    /\ result = NoResult
    /\ second = NoResult
    /\ Untouched

\* what a call that returned or threw leaves in the state
Leaves(run, options, at) ==
    /\ result' = run.result
    /\ threw' = run.raised
    /\ trace' = run.events
    /\ aiOptions' = options
    /\ pc' = at
    /\ UNCHANGED <<engine, input, second, instance, returned>>

\* InferenceEngine.fixXML(input, useAI): xmlParser.fix(input, options) when
\* useAI is set and a model is loaded, xmlParser.fix(input) otherwise
XmlFixWithOptions ==
    /\ pc = "ready"
    /\ engine = "xml"
    /\ \E options \in AiOptions \cup {NoOptions} :
           Leaves(XMLfixWithOptions(input, options), options, "fixedWithOptions")

\* InferenceEngine.fixJSON(input, useAI)
JsonFixWithOptions ==
    /\ pc = "ready"
    /\ engine = "json"
    /\ \E options \in AiOptions \cup {NoOptions} :
           Leaves(JSONfixWithOptions(input, options), options, "fixedWithOptions")

\* xmlParser.fixWithAI(input, model, tokenizer)
XmlFixWithAI ==
    /\ pc = "ready"
    /\ engine = "xml"
    /\ \E options \in AiOptions :
           Leaves(XMLfixWithAI(input, options), options, "fixedWithAI")

\* jsonParser.fixWithAI(input, model, tokenizer)
JsonFixWithAI ==
    /\ pc = "ready"
    /\ engine = "json"
    /\ \E options \in AiOptions :
           Leaves(JSONfixWithAI(input, options), options, "fixedWithAI")

NextAI == XmlFixWithOptions \/ JsonFixWithOptions \/ XmlFixWithAI \/ JsonFixWithAI

SpecAI == InitAI /\ [][NextAI]_vars

(***************************************************************************)
(* The state machine of one parser instance: parse, fix and validate are   *)
(* called on it one after the other, each with a text of its own.          *)
(* returned keeps, for each call, the value it returned and what that      *)
(* value held when it was returned.                                        *)
(***************************************************************************)
MaxCalls == 2

\* {"a": 1}, a URL in a string, {"a": 1,}, the same with the member on
\* line 2, an apostrophe in a string, {a: 001}
CallJsonTexts ==
    {JsonDocument("valid", << <<"1">> >>),
     JsonDocument("valid", <<UrlLiteral>>),
     JsonDocument("trailingComma", << <<"1">> >>),
     <<"{", NL>> \o Tail(JsonDocument("trailingComma", << <<"1">> >>)),
     JsonDocument("valid", << <<DQ, "i", "t", SQ, "s", DQ>> >>),
     JsonDocument("unquotedKeys", << <<"0", "0", "1">> >>)}

CallXmlTexts == {MissingClosingTag, MismatchedTagName, TwoRoots, XmlComment}

InitCalls ==
    /\ engine \in {"json", "xml"}
    /\ input = <<>>
    /\ pc = "idle"
    /\ result = NoResult
    /\ second = NoResult
    /\ Untouched

\* a call with argument text returns: the instance and the history move on
Returns(name, text, call) ==
    /\ instance' = call.inst
    /\ returned' = Append(returned,
                      [call |-> name, arg |-> text, value |-> call.value,
                       snapshot |-> Resolve(call.value, call.inst.heap)])
    /\ result' = Resolve(call.value, call.inst.heap)
    /\ input' = text
    /\ pc' = "called"
    /\ UNCHANGED <<engine, second, aiOptions, threw, trace>>

JsonParseCall ==
    /\ engine = "json" /\ Len(returned) < MaxCalls
    /\ \E text \in CallJsonTexts : Returns("parse", text, jsonParseOn(instance, text))

JsonFixCall ==
    /\ engine = "json" /\ Len(returned) < MaxCalls
    /\ \E text \in CallJsonTexts : Returns("fix", text, jsonFixOn(instance, text))

JsonValidateCall ==
    /\ engine = "json" /\ Len(returned) < MaxCalls
    /\ \E text \in CallJsonTexts : Returns("validate", text, jsonValidateOn(instance, text))

XmlParseCall ==
    /\ engine = "xml" /\ Len(returned) < MaxCalls
    /\ \E text \in CallXmlTexts : Returns("parse", text, xmlParseOn(instance, text))

XmlFixCall ==
    /\ engine = "xml" /\ Len(returned) < MaxCalls
    /\ \E text \in CallXmlTexts : Returns("fix", text, xmlFixOn(instance, text))

XmlValidateCall ==
    /\ engine = "xml" /\ Len(returned) < MaxCalls
    /\ \E text \in CallXmlTexts : Returns("validate", text, xmlValidateOn(instance, text))

NextCalls ==
    \/ JsonParseCall \/ JsonFixCall \/ JsonValidateCall
    \/ XmlParseCall \/ XmlFixCall \/ XmlValidateCall

SpecCalls == InitCalls /\ [][NextCalls]_vars

(***************************************************************************)
(* The state machine of tag-name comparison: _isSimilarTag is called on    *)
(* two tag names, as _fixMismatchedTags calls it on the name on top of the *)
(* stack and the name of a closing tag.                                    *)
(***************************************************************************)
\* the largest length of a tag name
MaxNameLen == 3

\* the characters of the names: letters, the plural s, a digit
NameLetters == {"a", "b", "s"}

NameAlphabet == NameLetters \cup {"1"}

\* tag names: a letter, then letters and digits
TagNames ==
    {n \in UNION {[1..k -> NameAlphabet] : k \in 1..MaxNameLen} : n[1] \in NameLetters}

InitNames ==
    /\ engine = "xml"
    /\ input \in TagNames \X TagNames
    /\ pc = "ready"
    /\ result = NoResult
    /\ second = NoResult
    /\ Untouched

\* this._isSimilarTag(expected, actual), and the call with the names swapped
IsSimilarTag ==
    /\ pc = "ready"
    /\ result' = [similar  |-> isSimilarTag(input[1], input[2]),
                  swapped  |-> isSimilarTag(input[2], input[1]),
                  distance |-> levenshteinDistance(input[1], input[2])]
    /\ pc' = "compared"
    /\ UNCHANGED <<engine, input, second, aiOptions, threw, trace, instance, returned>>

NextNames == IsSimilarTag

SpecNames == InitNames /\ [][NextNames]_vars

(***************************************************************************)
(* The state machine of the scanners of JSONParser.fix: a text is handed   *)
(* to one of the rules that fix applies to its running text.               *)
(***************************************************************************)
\* the largest number of pieces of a scanned text
MaxPieces == 3

\* the pieces a scanned text is made of: a string, a string that ends with
\* an escaped quote, a quote, a backslash, a letter, white space,
\* punctuation and a digit
ScanPieces ==
    {<<DQ, "a", DQ>>, <<DQ, "b", BS, DQ>>, <<DQ>>, <<BS>>, <<"n">>, <<" ">>, <<NL>>,
     <<"{">>, <<"}">>, <<"[">>, <<"]">>, <<"1">>, <<":">>, <<",">>}

\* '{"obj": {"a": 1} "b": 2}'
MissingCommaAfterNested ==
    <<"{", DQ, "o", "b", "j", DQ, ":", " ", "{", DQ, "a", DQ, ":", " ", "1", "}", " ", DQ, "b", DQ, ":", " ", "2", "}">>

\* the path with its backslashes escaped, and with single backslashes
EscapedPath ==
    <<"{", NL, " ", " ", DQ, "p", "a", "t", "h", DQ, ":", " ", DQ, "C", ":", BS, BS, "U", "s", "e", "r", "s", BS, BS, "D", "o", "c", "u", "m", "e", "n", "t", "s", DQ, NL, "}">>

SinglePath ==
    <<"{", NL, " ", " ", DQ, "p", "a", "t", "h", DQ, ":", " ", DQ, "C", ":", BS, "U", "s", "e", "r", "s", BS, "D", "o", "c", "u", "m", "e", "n", "t", "s", DQ, NL, "}">>

ScanTexts ==
    {Concat(d) : d \in UNION {[1..n -> ScanPieces] : n \in 0..MaxPieces}}
        \cup {MissingCommaAfterNested, EscapedPath, SinglePath}

InitJsonRules ==
    /\ engine = "json"
    /\ input \in ScanTexts
    /\ pc = "ready"
    /\ result = NoResult
    /\ second = NoResult
    /\ Untouched

\* a rule has run on the text
Scanned(text, at) ==
    /\ pc = "ready"
    /\ result' = [text |-> text]
    /\ pc' = at
    /\ UNCHANGED <<engine, input, second, aiOptions, threw, trace, instance, returned>>

\* this._addMissingCommas(fixed)
AddMissingCommas == Scanned(addMissingCommas(input), "commasAdded")

\* this._fixUnclosedStrings(fixed)
FixUnclosedStrings == Scanned(fixUnclosedStrings(input), "stringsClosed")

\* fixed.replace(unescapedBackslashRegex, ...)
EscapeBackslashes == Scanned(escapeBackslashes(input), "backslashesEscaped")

NextJsonRules == AddMissingCommas \/ FixUnclosedStrings \/ EscapeBackslashes

SpecJsonRules == InitJsonRules /\ [][NextJsonRules]_vars

(***************************************************************************)
(* The state machine of the text rules of XMLParser.fix: a text is handed  *)
(* to one of the rules that fix applies to its running text.               *)
(***************************************************************************)
\* the largest number of parts of such a text
MaxParts == 3

\* the parts: an opening tag, closing tags of two names, a letter, a bare
\* and an escaped ampersand, bare angle brackets, a tag whose attribute
\* value holds a >, and a CDATA section
XmlParts ==
    {<<"<", "a", ">">>, <<"<", "/", "a", ">">>, <<"<", "/", "b", ">">>, <<"x">>, <<"&">>, <<"&", "a", "m", "p", ";">>,
     <<" ", "<", " ">>, <<" ", ">", " ">>,
     <<"<", "a", " ", "b", "=", DQ, ">", DQ, ">">>,
     <<"<", "!", "[", "C", "D", "A", "T", "A", "[", "&", "]", "]", ">">>}

\* '<root>value</root></extra>'
ExtraClosingTag ==
    <<"<", "r", "o", "o", "t", ">", "v", "a", "l", "u", "e", "<", "/", "r", "o", "o", "t", ">", "<", "/", "e", "x", "t", "r", "a", ">">>

\* the closing tag of an element closed before, met again after text
RepeatedClosingTag ==
    <<"<", "i", "t", "e", "m", ">", "1", "<", "/", "i", "t", "e", "m", ">", "2", "<", "/", "i", "t", "e", "m", ">">>

\* '<root>5 & 6</root>', '<root>5 < 6</root>', '<root>5 > 6</root>'
UnescapedAmpersand == <<"<", "r", "o", "o", "t", ">", "5", " ", "&", " ", "6", "<", "/", "r", "o", "o", "t", ">">>

UnescapedLessThan == <<"<", "r", "o", "o", "t", ">", "5", " ", "<", " ", "6", "<", "/", "r", "o", "o", "t", ">">>

UnescapedGreaterThan == <<"<", "r", "o", "o", "t", ">", "5", " ", ">", " ", "6", "<", "/", "r", "o", "o", "t", ">">>

XmlRuleTexts ==
    {Concat(d) : d \in UNION {[1..n -> XmlParts] : n \in 0..MaxParts}}
        \cup {ExtraClosingTag, RepeatedClosingTag,
              UnescapedAmpersand, UnescapedLessThan, UnescapedGreaterThan}

InitXmlRules ==
    /\ engine = "xml"
    /\ input \in XmlRuleTexts
    /\ pc = "ready"
    /\ result = NoResult
    /\ second = NoResult
    /\ Untouched

\* this._balanceTags(fixed)
BalanceTags ==
    /\ pc = "ready"
    /\ result' = [text |-> balanceTags(input).xml, fixes |-> balanceTags(input).fixes]
    /\ pc' = "balanced"
    /\ UNCHANGED <<engine, input, second, aiOptions, threw, trace, instance, returned>>

\* this._escapeSpecialChars(fixed)
EscapeSpecialChars == Scanned(escapeSpecialChars(input), "escaped")

NextXmlRules == BalanceTags \/ EscapeSpecialChars

SpecXmlRules == InitXmlRules /\ [][NextXmlRules]_vars

(***************************************************************************)
(* InferenceEngine (src/src/inference/engine.js): calls made on one engine *)
(* before any of them has returned.  A call runs up to its next await in   *)
(* one step; the steps of different calls interleave.  Here input holds    *)
(* the calls made, pc the position of each call, instance the fields of    *)
(* the engine, trace the runs of initialize and of the parsers' fix, and   *)
(* returned the values of the calls that have returned.                    *)
(***************************************************************************)
\* the largest number of calls in flight
MaxCallers == 2

\* the texts handed to the engine: a JSON text, an XML text, and a text of
\* neither format
EngineTexts == {MissingClosingBrace, DeclaredDocument, <<"x">>}

\* what the two parsers' fix returns for these texts
parserFixes ==
    [text \in EngineTexts |-> [json |-> JSONfix(text), xml |-> XMLfix(text)]]

EngineCall(method, inputs) == [method |-> method, inputs |-> inputs]

\* the calls: fixJSON and fixXML of a text of their format, autoFix of any
\* text, batchFix of a list
EngineCalls ==
    {EngineCall("fixJSON", <<MissingClosingBrace>>),
     EngineCall("fixXML", <<DeclaredDocument>>)}
        \cup {EngineCall("autoFix", <<text>>) : text \in EngineTexts}
        \cup {EngineCall("batchFix", inputs) :
                inputs \in {<<>>, <<MissingClosingBrace>>,
                            <<DeclaredDocument, MissingClosingBrace>>}}

\* the fields of the engine after its constructor
NewEngine(useAI) ==
    [initialized |-> FALSE, useAI |-> useAI, model |-> "null", tokenizer |-> "null"]

\* a call that has not been made yet: frames are the methods it is in,
\* outermost first, k the index of the batch input in hand
NotCalled == [at |-> "pending", frames |-> <<>>, k |-> 1, useAI |-> FALSE]

\* the engine, the runs and the returned values, as one value
Machine(inst, runs, values) == [inst |-> inst, runs |-> runs, values |-> values]

Run(event, c, format, ai, initialized) ==
    [event |-> event, call |-> c, format |-> format, ai |-> ai,
     initialized |-> initialized]

\* autoFix: the format of a text by the first character of input.trim()
detectFormat(text) ==
    IF StartsWith(Trim(text), <<"{">>) \/ StartsWith(Trim(text), <<"[">>) THEN "json"
    ELSE IF StartsWith(Trim(text), <<"<">>) THEN "xml"
    ELSE "unknown"

\* the method on top of the frames has returned: the call is over, or its
\* caller waits for the value
leave(p) ==
    [p EXCEPT !.frames = SubSeq(@, 1, Len(@) - 1),
              !.at = IF Len(p.frames) = 1 THEN "done" ELSE "awaiting"]

\* fixJSON and fixXML after their check: the parser's fix runs on the text;
\* the options carry the model when useAI && this.model
parserFix(c, format, text, p, m) ==
    [p |-> leave(p),
     m |-> [m EXCEPT
              !.runs = Append(@, Run("fix", c, format,
                                     p.useAI /\ m.inst.model # "null",
                                     m.inst.initialized)),
              !.values = Append(@, [call |-> c, format |-> format,
                                    success |-> parserFixes[text][format].success])]]

\* The body of the method on top of the frames, and the entry of a method:
\* if (!this.initialized) await this.initialize(), which runs initialize up
\* to its first await.
RECURSIVE body(_, _, _, _)
RECURSIVE enter(_, _, _, _, _)
body(c, call, p, m) ==
    LET method == p.frames[Len(p.frames)]
        text   == IF p.k <= Len(call.inputs) THEN call.inputs[p.k] ELSE <<>>
    IN  CASE method = "fixJSON" -> parserFix(c, "json", text, p, m)
          [] method = "fixXML"  -> parserFix(c, "xml", text, p, m)
          [] method = "autoFix" ->
                IF detectFormat(text) = "json" THEN enter(c, call, "fixJSON", p, m)
                ELSE IF detectFormat(text) = "xml" THEN enter(c, call, "fixXML", p, m)
                ELSE [p |-> leave(p),
                      m |-> [m EXCEPT !.values = Append(@, [call |-> c, format |-> "unknown",
                                                            success |-> FALSE])]]
          [] method = "batchFix" ->
                IF p.k > Len(call.inputs) THEN [p |-> leave(p), m |-> m]
                ELSE enter(c, call, "autoFix", p, m)

enter(c, call, method, p, m) ==
    LET entered == [p EXCEPT !.frames = Append(@, method)]
    IN  IF ~m.inst.initialized
          THEN [p |-> [entered EXCEPT !.at = "loadTokenizer"],
                m |-> [m EXCEPT !.runs = Append(@, Run("initialize", c, "none", FALSE, FALSE))]]
          ELSE body(c, call, entered, m)

\* the value a nested call was awaited for arrives: autoFix returns it,
\* batchFix pushes it and goes on with the next input
resume(c, call, p, m) ==
    IF p.frames[Len(p.frames)] = "batchFix"
      THEN body(c, call, [p EXCEPT !.k = @ + 1], m)
      ELSE [p |-> leave(p), m |-> m]

InitEngine ==
    /\ engine = "inference"
    /\ input \in [1..MaxCallers -> EngineCalls]
    /\ pc = [c \in 1..MaxCallers |-> NotCalled]
    /\ instance \in {NewEngine(useAI) : useAI \in BOOLEAN}
    /\ trace = <<>>
    /\ returned = <<>>
    /\ result = NoResult
    /\ second = NoResult
    /\ aiOptions = NoOptions
    /\ threw = FALSE

\* a step of call c leaves the call at next.p and the engine at next.m
Moves(c, next) ==
    /\ pc' = [pc EXCEPT ![c] = next.p]
    /\ instance' = next.m.inst
    /\ trace' = next.m.runs
    /\ returned' = next.m.values
    /\ UNCHANGED <<engine, input, result, second, aiOptions, threw>>

\* the call is made: useAI defaults to this.config.useAI, and the method
\* runs up to its first await
Call ==
    \E c \in 1..MaxCallers :
        /\ pc[c].at = "pending"
        /\ Moves(c, enter(c, input[c], input[c].method,
                          [pc[c] EXCEPT !.useAI = instance.useAI],
                          Machine(instance, trace, returned)))

\* initialize after await this._loadJSON: the tokenizer is the loaded one
\* or, when loading failed, a new one; with useAI the model is created and
\* its weights are awaited, without it initialize ends
TokenizerLoaded ==
    \E c \in 1..MaxCallers, loaded \in BOOLEAN :
        /\ pc[c].at = "loadTokenizer"
        /\ LET tokenizer == IF loaded THEN "loaded" ELSE "default"
           IN  IF instance.useAI
                 THEN Moves(c, [p |-> [pc[c] EXCEPT !.at = "loadWeights"],
                                m |-> Machine([instance EXCEPT !.tokenizer = tokenizer,
                                                               !.model = "created"],
                                              trace, returned)])
                 ELSE Moves(c, [p |-> [pc[c] EXCEPT !.at = "initialized"],
                                m |-> Machine([instance EXCEPT !.tokenizer = tokenizer,
                                                               !.initialized = TRUE],
                                              trace, returned)])

\* initialize after await this.model.loadWeights, which loads the weights
\* or falls back to random ones: this.initialized = true
WeightsLoaded ==
    \E c \in 1..MaxCallers, loaded \in BOOLEAN :
        /\ pc[c].at = "loadWeights"
        /\ Moves(c, [p |-> [pc[c] EXCEPT !.at = "initialized"],
                     m |-> Machine([instance EXCEPT
                                      !.model = IF loaded THEN "loaded" ELSE "random",
                                      !.initialized = TRUE],
                                   trace, returned)])

\* the method goes on after await this.initialize()
Initialized ==
    \E c \in 1..MaxCallers :
        /\ pc[c].at = "initialized"
        /\ Moves(c, body(c, input[c], pc[c], Machine(instance, trace, returned)))

\* the method goes on after the await of a nested call
Resumes ==
    \E c \in 1..MaxCallers :
        /\ pc[c].at = "awaiting"
        /\ Moves(c, resume(c, input[c], pc[c], Machine(instance, trace, returned)))

NextEngine == Call \/ TokenizerLoaded \/ WeightsLoaded \/ Initialized \/ Resumes

SpecEngine == InitEngine /\ [][NextEngine]_vars

(***************************************************************************)
(* Properties.  A state with pc # "ready" holds in result what fix         *)
(* returned for input; a state with pc = "refixed" also holds in second    *)
(* what fix returned for result.fixed.                                     *)
(***************************************************************************)
\* the engine's own parse
Parse(text) == IF engine = "json" THEN JSONparse(text) ELSE XMLparse(text)

\* the entries of a fixes list that carry the given label
Reports(fixes, label) == SelectSeq(fixes, LAMBDA f : f.label = label)

\* every element of seq a occurs in seq b, in the order of a
RECURSIVE IsSubsequence(_, _, _, _)
IsSubsequence(a, b, i, j) ==
    IF i > Len(a) THEN TRUE
    ELSE IF j > Len(b) THEN FALSE
    ELSE IF a[i] = b[j] THEN IsSubsequence(a, b, i + 1, j + 1)
    ELSE IsSubsequence(a, b, i, j + 1)

\* The double-quoted string literals of a JSON text: a quote opens a
\* literal, a backslash inside a literal takes the next character with it,
\* the next quote closes the literal.
literalStep(s, st) ==
    LET c    == s[st.i]
        next == [st EXCEPT !.i = @ + 1]
    IN  IF ~st.inString
          THEN IF c = DQ THEN [next EXCEPT !.inString = TRUE] ELSE next
        ELSE IF st.escapeNext
          THEN [next EXCEPT !.escapeNext = FALSE, !.current = Append(@, c)]
        ELSE IF c = BS
          THEN [next EXCEPT !.escapeNext = TRUE, !.current = Append(@, c)]
        ELSE IF c = DQ
          THEN [next EXCEPT !.inString = FALSE, !.current = <<>>,
                            !.literals = Append(@, st.current)]
        ELSE [next EXCEPT !.current = Append(@, c)]

StringLiterals(s) ==
    Loop(literalStep, s,
         [i |-> 1, inString |-> FALSE, escapeNext |-> FALSE, current |-> <<>>,
          literals |-> <<>>],
         1, Len(s))

\* every string literal of s is closed, and closed on the line it opens on
StringsProperlyClosed(s) ==
    LET scan == StringLiterals(s)
    IN  /\ ~scan.inString
        /\ \A k \in 1..Len(scan.literals) : ~Includes(scan.literals[k], <<NL>>)

\* the names of the closing tags of an XML text, in text order
ClosingNames(s) ==
    LET closing == SelectSeq(scanTags(s), LAMBDA g : g.isClosing)
    IN  [k \in 1..Len(closing) |-> closing[k].name]

ClosingTag(name) == <<"<", "/">> \o name \o <<">">>

\* a tag written as <name> or </name>
PlainTag(g) ==
    /\ ~g.isSelfClosing
    /\ g.end - g.position = Len(g.name) + (IF g.isClosing THEN 2 ELSE 1)

\* the text holds no comment, CDATA section or processing instruction
TagsAndTextOnly(s) == ~Includes(s, <<"<", "!">>) /\ ~Includes(s, <<"<", "?">>)

\* the text starts with opening tags <name>, and text follows its first n
\* tags only after the last of them
OpensOnly(s, tags, n) ==
    /\ TagsAndTextOnly(s)
    /\ n >= 1
    /\ Len(tags) >= n
    /\ tags[1].position = 1
    /\ \A k \in 1..n : PlainTag(tags[k]) /\ ~tags[k].isClosing

\* The text is k >= 1 opening tags and one closing tag, all plain, and the
\* closing tag is the last tag of the text.
OpensThenOneCloser(s) ==
    LET tags == scanTags(s)
        n    == Len(tags)
    IN  /\ n >= 2
        /\ OpensOnly(s, tags, n - 1)
        /\ PlainTag(tags[n]) /\ tags[n].isClosing

\* the open-tag stack top and the closing tag of such a text
TopName(s) == scanTags(s)[Len(scanTags(s)) - 1].name

CloserName(s) == scanTags(s)[Len(scanTags(s))].name

Closer(s) == scanTags(s)[Len(scanTags(s))]

---------------------------------------------------------------------------
\* C1: on both engines fix returns success = true exactly when the fixed
\* text it returns is accepted by the engine's own parse, the rejection
\* before the rules (fixed = input) included.
C1_SuccessIffReparses ==
    pc # "ready" => (result.success <=> Parse(result.fixed).success)

\* C2: for a strictly valid JSON input, fix returns success = true and the
\* fixed text parses to the value the input parses to.
C2_ValidJsonKeepsValue ==
    (engine = "json" /\ pc # "ready" /\ JSONparse(input).success) =>
        /\ result.success
        /\ result.data = JSONparse(input).data

\* C3: fix is idempotent on both engines: fix on the fixed text returns the
\* same fixed text and an empty fixes list.
C3_FixIsIdempotent ==
    pc = "refixed" => (second.fixed = result.fixed /\ second.fixes = <<>>)

\* C4: when every double-quoted string literal of the input is properly
\* closed, JSONParser.fix changes, removes or adds no character inside a
\* string literal: the literals of the input are literals of the fixed
\* text, character for character and in the same order.
C4_StringLiteralsUntouched ==
    (engine = "json" /\ pc # "ready" /\ StringsProperlyClosed(input)) =>
        IsSubsequence(StringLiterals(input).literals,
                      StringLiterals(result.fixed).literals, 1, 1)

\* C5: when a string value of the input is the URL "https://example.com",
\* the text JSONParser.fix returns still contains that literal.
C5_UrlIsRetained ==
    (engine = "json" /\ pc # "ready" /\ Includes(input, UrlLiteral)) =>
        Includes(result.fixed, UrlLiteral)

\* The closing tag of the text names its outermost element, which is not
\* the stack top, and the fix of mismatched names leaves the tag alone.
ClosesOutermostElement(s) ==
    /\ OpensThenOneCloser(s)
    /\ Len(scanTags(s)) >= 3
    /\ CloserName(s) = scanTags(s)[1].name
    /\ \A k \in 2..(Len(scanTags(s)) - 1) : scanTags(s)[k].name # CloserName(s)
    /\ ~isSimilarTag(TopName(s), CloserName(s))

\* the elements above the outermost one, innermost first
Intervening(s) ==
    LET tags == scanTags(s)
    IN  [k \in 1..(Len(tags) - 2) |-> tags[Len(tags) - k].name]

\* C6: when the closing tag names an element open deeper in the stack than
\* the top, XMLParser.fix closes exactly the elements above it, innermost
\* first and before that closing tag, and reports exactly those as the
\* unclosed tags; the fixed text is accepted.
C6_ClosesOnlyInterveningElements ==
    (engine = "xml" /\ pc # "ready" /\ ClosesOutermostElement(input)) =>
        /\ result.success
        /\ ClosingNames(result.fixed) = Intervening(input) \o <<CloserName(input)>>
        /\ Reports(result.fixes, "Fixed unclosed tag(s)")
               = <<UnclosedFix(Intervening(input))>>

\* the text is k >= 1 plain opening tags, the last one followed by text or
\* by nothing: every element is still open at the end
AllLeftOpen(s) == OpensOnly(s, scanTags(s), Len(scanTags(s)))

\* the names of the opening tags, innermost first
OpenNamesInnermostFirst(s) ==
    LET tags == scanTags(s)
    IN  [k \in 1..Len(tags) |-> tags[Len(tags) - k + 1].name]

\* C7: when elements are still open at the end of the text, XMLParser.fix
\* appends their closing tags innermost first, and the fixed text is
\* accepted, whatever the number of open elements.
C7_ClosesOpenElementsAtEnd ==
    (engine = "xml" /\ pc # "ready" /\ AllLeftOpen(input)) =>
        /\ result.success
        /\ ClosingNames(result.fixed) = OpenNamesInnermostFirst(input)

\* the closing tag of the text differs from the stack top and is similar
\* to it
MisspelledCloser(s) ==
    /\ OpensThenOneCloser(s)
    /\ TopName(s) # CloserName(s)
    /\ isSimilarTag(TopName(s), CloserName(s))

\* C8: a closing tag whose name differs from the stack top and is similar
\* to it is rewritten in place to the name of the stack top, and one
\* mismatched-tag fix is reported; when the element is the whole document
\* the fixed text is accepted, holds the corrected closing tag and no
\* longer the misspelled one.
C8_SimilarCloserIsRewritten ==
    (engine = "xml" /\ pc # "ready" /\ MisspelledCloser(input)) =>
        /\ Reports(result.fixes, "Fixed mismatched tag")
               = <<MismatchFix(CloserName(input), TopName(input))>>
        /\ fixMismatchedTags(addDeclaration(input)).xml
               = Declaration \o Upto(input, Closer(input).position)
                     \o ClosingTag(TopName(input))
                     \o From(input, Closer(input).end + 1)
        /\ Len(scanTags(input)) = 2 =>
               /\ result.success
               /\ Includes(result.fixed, ClosingTag(TopName(input)))
               /\ ~Includes(result.fixed, ClosingTag(CloserName(input)))

\* the misspelled closing tag of a one-element document has been corrected
C8_Witness ==
    /\ engine = "xml" /\ pc = "fixed"
    /\ input = MismatchedTagName
    /\ result.success
    /\ Len(Reports(result.fixes, "Fixed mismatched tag")) = 1

\* one name is the other followed by s
PluralPair(a, b) == Append(a, "s") = b \/ a = Append(b, "s")

\* the closing tag of the text and the stack top are a plural/singular pair
PluralCloser(s) == OpensThenOneCloser(s) /\ PluralPair(TopName(s), CloserName(s))

topLevelStep(tags, st) ==
    LET g    == tags[st.i]
        next == [st EXCEPT !.i = @ + 1]
    IN  IF g.isClosing
          THEN [next EXCEPT !.depth = IF @ > 0 THEN @ - 1 ELSE 0]
        ELSE IF g.isSelfClosing
          THEN [next EXCEPT !.count = IF st.depth = 0 THEN @ + 1 ELSE @]
        ELSE [next EXCEPT !.count = IF st.depth = 0 THEN @ + 1 ELSE @,
                          !.depth = @ + 1]

TopLevelElements(s) ==
    Loop(topLevelStep, scanTags(s), [i |-> 1, depth |-> 0, count |-> 0],
         1, Len(scanTags(s))).count

\* non-whitespace text stands before the first tag
TextBeforeFirstTag(s) ==
    /\ scanTags(s) # <<>>
    /\ Trim(Upto(s, scanTags(s)[1].position)) # <<>>

\* the text opens with a closing tag, or has closing tags only
OpensWithClosingTag(s) ==
    /\ scanTags(s) # <<>>
    /\ \/ scanTags(s)[1].isClosing /\ Trim(Upto(s, scanTags(s)[1].position)) = <<>>
       \/ \A k \in 1..Len(scanTags(s)) : scanTags(s)[k].isClosing

\* a tag name holds a space, and the text has no attribute
SpaceInTagName(s) ==
    /\ ~Includes(s, <<"=">>)
    /\ \E k \in 1..Len(scanTags(s)) :
           LET g == scanTags(s)[k]
           IN  /\ ~g.isClosing
               /\ g.position + Len(g.name) + 2 <= g.end
               /\ s[g.position + Len(g.name) + 1] = " "
               /\ s[g.position + Len(g.name) + 2] \in Letters

\* the documents C10 names
CriticalDocument(s) ==
    /\ TagsAndTextOnly(s)
    /\ \/ TopLevelElements(s) > 1
       \/ TextBeforeFirstTag(s)
       \/ OpensWithClosingTag(s)
       \/ SpaceInTagName(s)

\* C10: on a document with more than one top-level element, with text
\* before the first tag, opening with a closing tag or made of closing tags
\* only, or with a space in a tag name and no attribute, XMLParser.fix
\* returns success = false and canTryAI = true, the input as fixed, no
\* fixes and the critical errors.
C10_CriticalDocumentIsRejected ==
    (engine = "xml" /\ pc # "ready" /\ CriticalDocument(input)) =>
        /\ ~result.success
        /\ result.canTryAI
        /\ result.fixed = input
        /\ result.fixes = <<>>
        /\ result.errors = detectCriticalErrors(input)
        /\ result.errors # <<>>

\* every tag outside the sections is <name>, </name> or <name/>
PlainOrEmptyTag(g) ==
    g.end - g.position = Len(g.name) + (IF g.isClosing \/ g.isSelfClosing THEN 2 ELSE 1)

\* A valid document with a comment, CDATA section or processing
\* instruction: without its sections the text is one element, properly
\* nested, of tags without attributes.
ValidWithSections(s) ==
    LET t == stripConstructs(s)
    IN  /\ ~TagsAndTextOnly(s)
        /\ TagsAndTextOnly(t)
        /\ \A k \in 1..Len(scanTags(t)) : PlainOrEmptyTag(scanTags(t)[k])
        /\ validateXMLStructure(t).success
        /\ TopLevelElements(t) = 1
        /\ ~TextBeforeFirstTag(t)
        /\ scanTags(t)[Len(scanTags(t))].end = Len(t)

\* C11: text inside comments, CDATA sections and processing instructions is
\* never read as a tag: on a valid document that holds such a section,
\* XMLParser.fix returns success = true, reports no unclosed tag and no
\* removed closing tag, and the fixed text has the closing tags of the input.
C11_SectionsAreNotTokenized ==
    (engine = "xml" /\ pc # "ready" /\ ValidWithSections(input)) =>
        /\ result.success
        /\ Reports(result.fixes, "Fixed unclosed tag(s)") = <<>>
        /\ Reports(result.fixes, "Removed unmatched closing tag") = <<>>
        /\ ClosingNames(result.fixed) = ClosingNames(input)

\* the events of a trace that are calls of one kind
Calls(events, call) == SelectSeq(events, LAMBDA e : e.call = call)

\* the method field of a result, "none" for a result without it
MethodOf(r) == IF "method" \in DOMAIN r THEN r.method ELSE "none"

\* C12: fix never raises: a call of fix, with the model and the tokenizer
\* or without, returns a result that carries a fixed text, also when the
\* tokenizer or the model throws.
C12_FixNeverRaises ==
    pc = "fixedWithOptions" => (~threw /\ "fixed" \in DOMAIN result)

C14_GenerateAtMostOnce ==
    (engine = "xml" /\ pc = "fixedWithOptions") =>
        /\ Len(Calls(trace, "generate")) <= 1
        /\ Len(Calls(trace, "rules")) + Len(Calls(trace, "preflight")) <= 2

\* fix entered the fallback after its final parse failed, and generate was
\* invoked
C14_Witness ==
    /\ engine = "xml" /\ pc = "fixedWithOptions"
    /\ input = MultipleUnclosedTags
    /\ trace[1] = Event("rules", FALSE)
    /\ Len(Calls(trace, "generate")) = 1
    /\ Len(Calls(trace, "parse")) = 1

\* C15: the rules are tried first: the tokenizer and the model are invoked
\* only after a rule-based attempt that failed, and when a rule-based
\* attempt succeeded they are not invoked and the result is returned with
\* success = true (on the XML engine with method "rules").
C15_RulesAreTriedFirst ==
    pc \in {"fixedWithOptions", "fixedWithAI"} =>
        /\ \A k \in 1..Len(trace) :
               trace[k].call \in {"encode", "generate"} =>
                   \E j \in 1..(k - 1) : trace[j] = Event("rules", FALSE)
        /\ (\E k \in 1..Len(trace) : trace[k] = Event("rules", TRUE)) =>
               /\ Calls(trace, "encode") = <<>>
               /\ Calls(trace, "generate") = <<>>
               /\ ~threw
               /\ result.success
               /\ engine = "xml" => result.method = "rules"

\* fix was given the model and the tokenizer, the rules repaired the text
\* and the model was not invoked
C15_Witness ==
    /\ engine = "xml" /\ pc = "fixedWithOptions"
    /\ UsesAI(aiOptions)
    /\ input = MissingClosingTag
    /\ trace = <<Event("rules", TRUE)>>
    /\ result.method = "rules"

\* the span fixWithAI extracts from the generated text, <<>> for none
Extracted ==
    IF engine = "xml" THEN extractXml(aiOptions.generated)
                      ELSE extractJson(aiOptions.generated)

\* the rule-based attempt on the input
RuleAttempt == IF engine = "xml" THEN XMLfix(input) ELSE JSONfix(input)

\* the generated text gives no span that parses
NoUsableSpan ==
    \/ aiOptions.generate = "throws"
    \/ aiOptions.decode = "throws"
    \/ Extracted = <<>>
    \/ ~Parse(Extracted).success

\* C16: fixWithAI returns method "ai" only with the extracted span as the
\* fixed text and only when that span passes parse; when the rules failed
\* and generation throws, nothing is extracted or the span fails parse, it
\* returns the rule-based attempt with method "rules".
C16_AiResultPassesParse ==
    (pc = "fixedWithAI" /\ ~threw) =>
        /\ MethodOf(result) = "ai" =>
               /\ ~NoUsableSpan
               /\ result.success
               /\ result.fixed = Extracted
        /\ (~RuleAttempt.success /\ NoUsableSpan) =>
               /\ result.method = "rules"
               /\ result.success = RuleAttempt.success
               /\ result.fixed = RuleAttempt.fixed
               /\ result.fixes = RuleAttempt.fixes
               /\ result.errors = RuleAttempt.errors

\* the rules failed, the generated text held a span that does not parse,
\* and the rule-based attempt came back
C16_Witness ==
    /\ engine = "json" /\ pc = "fixedWithAI" /\ ~threw
    /\ ~RuleAttempt.success
    /\ Extracted # <<>>
    /\ Calls(trace, "parse") = <<Event("parse", FALSE)>>
    /\ result.method = "rules"

\* C17: JSONParser.fix called with the model and the tokenizer on a text
\* the rules cannot repair invokes the model, and its result carries a
\* method ("rules" or "ai") and the flag canTryAI.
C17_JsonFixFallsBack ==
    (engine = "json" /\ pc = "fixedWithOptions" /\ UsesAI(aiOptions)
        /\ ~RuleAttempt.success /\ aiOptions.encode = "returns") =>
        /\ Calls(trace, "generate") # <<>>
        /\ MethodOf(result) \in {"rules", "ai"}
        /\ "canTryAI" \in DOMAIN result

\* the text fix holds after its first k steps
TextAfter(s, k) ==
    Loop(jsonFixStep, s, [i |-> 1, fixed |-> s, fixes |-> <<>>], 1, k).fixed

\* the steps of fix that changed the text they were given
ChangingSteps(s) == {k \in 1..12 : TextAfter(s, k) # TextAfter(s, k - 1)}

\* C18: the fixes list of JSONParser.fix holds one label for each rule that
\* changed the text and none for a rule that did not, the normalization of
\* NaN, Infinity and undefined included; with an empty list the fixed text
\* is the original.
C18_FixesListTheChanges ==
    (engine = "json" /\ pc # "ready") =>
        /\ Len(result.fixes) = Cardinality(ChangingSteps(input))
        /\ result.fixes = <<>> => result.fixed = input

\* the calls of validate on the JSON engine that have returned
JsonValidations ==
    {k \in 1..Len(returned) : engine = "json" /\ returned[k].call = "validate"}

\* f is a finding on a line of text, with its 1-based number
LineFinding(f, text) ==
    /\ DOMAIN f = {"line", "type", "severity"}
    /\ f.line \in 1..(Count(text, NL) + 1)
    /\ f.type \in {"trailing_comma", "unquoted_key", "single_quotes", "comment"}

\* issues is n line findings followed by errors
FindingsThenErrors(issues, n, text, errors) ==
    /\ \A j \in 1..n : LineFinding(issues[j], text)
    /\ SubSeq(issues, n + 1, Len(issues)) = errors

\* C19: for a text JSON.parse accepts, JSONParser.validate returns
\* valid = true with an empty issues list; for a text it rejects,
\* valid = false and issues is line findings with 1-based line numbers
\* followed by the parse errors, the trailing comma of {"a": 1,} being
\* found on line 1.
C19_ValidateAgreesWithParse ==
    \A k \in JsonValidations :
        /\ JSONparse(returned[k].arg).success =>
               /\ returned[k].snapshot.valid
               /\ returned[k].snapshot.issues = <<>>
        /\ ~JSONparse(returned[k].arg).success =>
               /\ ~returned[k].snapshot.valid
               /\ \E n \in 0..Len(returned[k].snapshot.issues) :
                      FindingsThenErrors(returned[k].snapshot.issues, n,
                          returned[k].arg, JSONparse(returned[k].arg).errors)
        /\ returned[k].arg = JsonDocument("trailingComma", << <<"1">> >>) =>
               returned[k].snapshot.issues[1] = Issue(1, "trailing_comma", "error")

\* what a call returns on a parser that no call was made on before
OnNewParser(call, arg) ==
    CASE engine = "json" /\ call = "parse"    -> JSONparse(arg)
      [] engine = "json" /\ call = "fix"      -> JSONfix(arg)
      [] engine = "json" /\ call = "validate" -> JSONvalidate(arg)
      [] engine = "xml" /\ call = "parse"     -> XMLparse(arg)
      [] engine = "xml" /\ call = "fix"       -> XMLfix(arg)
      [] engine = "xml" /\ call = "validate"  -> XMLvalidate(arg)

\* the address of the array a returned value holds
ArrayOf(value) == IF "issues" \in DOMAIN value THEN value.issues ELSE value.errors

\* C20: no state crosses the calls on a parser instance: what a call
\* returned is what the same call returns on a new parser, whatever calls
\* came before it; what an earlier call returned, its errors array
\* included, still holds what it held when it was returned; and no two
\* calls returned the same array.
C20_CallsShareNoState ==
    /\ \A k \in 1..Len(returned) :
           /\ returned[k].snapshot = OnNewParser(returned[k].call, returned[k].arg)
           /\ Resolve(returned[k].value, instance.heap) = returned[k].snapshot
    /\ \A j, k \in 1..Len(returned) :
           j # k => ArrayOf(returned[j].value) # ArrayOf(returned[k].value)

\* two calls of parse were rejected one after the other, and the first
\* returned this.errors itself
C20_Witness ==
    /\ Len(returned) = 2
    /\ returned[1].call = "parse" /\ ~returned[1].snapshot.success
    /\ returned[1].snapshot.errors # <<>>
    /\ returned[2].call = "parse" /\ ~returned[2].snapshot.success
    /\ returned[2].value.errors = instance.errors

\* the number of places of s where an XML declaration starts
Declarations(s) ==
    Cardinality({p \in 1..Len(s) : MatchAt(s, p, <<"<", "?", "x", "m", "l">>)})

\* s, trimmed, starts with an XML declaration
Declared(s) == StartsWith(Trim(s), <<"<", "?", "x", "m", "l">>)

\* C21: when the pre-flight check of XMLParser.fix does not reject the
\* text, the fixed text, trimmed, starts with an XML declaration; the
\* declaration is prepended and "Added XML declaration" is reported
\* exactly when the trimmed input does not start with "<?xml"; and the
\* fixed text never holds the declaration twice.
C21_DeclarationAddedWhenAbsent ==
    (engine = "xml" /\ pc # "ready" /\ detectCriticalErrors(input) = <<>>) =>
        /\ Declared(result.fixed)
        /\ ~Declared(input) <=> Reports(result.fixes, "Added XML declaration") # <<>>
        /\ ~Declared(input) <=> (/\ StartsWith(result.fixed, Declaration)
                                 /\ Declarations(result.fixed) = Declarations(input) + 1)
        /\ Declarations(result.fixed) <= 1

\* name is base followed by one or more digits
DigitsAppended(base, name) ==
    \E d \in 1..Len(name) :
        /\ base = SubSeq(name, 1, Len(name) - d)
        /\ \A k \in (Len(name) - d + 1)..Len(name) : name[k] \in Digits

\* a without its k-th character
Without(a, k) == SubSeq(a, 1, k - 1) \o SubSeq(a, k + 1, Len(a))

\* b is a, or a with one character replaced, removed or inserted
WithinOneEdit(a, b) ==
    \/ a = b
    \/ Len(a) = Len(b) /\ Cardinality({k \in 1..Len(a) : a[k] # b[k]}) = 1
    \/ \E k \in 1..Len(a) : Without(a, k) = b
    \/ \E k \in 1..Len(b) : Without(b, k) = a

RECURSIVE BackslashRun(_, _)
BackslashRun(s, k) == IF k >= 1 /\ s[k] = BS THEN 1 + BackslashRun(s, k - 1) ELSE 0

\* the quote that closes the string opened at p: the first one after p that
\* an even number of backslashes precedes; 0 when the string is left open
ClosingQuote(s, p) ==
    MinOf({q \in (p + 1)..Len(s) : s[q] = DQ /\ BackslashRun(s, q - 1) % 2 = 0})

\* the string literals of s from position i on, each with the positions of
\* its quotes; a string left open closes past the end of the text
RECURSIVE StringsFrom(_, _)
StringsFrom(s, i) ==
    IF NextIn(s, i, {DQ}) = 0 THEN {}
    ELSE IF ClosingQuote(s, NextIn(s, i, {DQ})) = 0
      THEN {[open |-> NextIn(s, i, {DQ}), close |-> Len(s) + 1]}
    ELSE {[open |-> NextIn(s, i, {DQ}), close |-> ClosingQuote(s, NextIn(s, i, {DQ}))]}
             \cup StringsFrom(s, ClosingQuote(s, NextIn(s, i, {DQ})) + 1)

Strings(s) == StringsFrom(s, 1)

\* position k lies between the quotes of a string
InsideString(s, k) == \E r \in Strings(s) : r.open < k /\ k < r.close

\* a }, ] or closing quote is at j
ClosesAt(s, j) ==
    \/ s[j] \in {"}", "]"} /\ ~InsideString(s, j)
    \/ \E r \in Strings(s) : r.close = j

\* a string, { or [ begins at p
BeginsAt(s, p) ==
    \/ s[p] \in {"{", "["} /\ ~InsideString(s, p)
    \/ \E r \in Strings(s) : r.open = p

\* the positions after which a comma is missing: a }, ] or closing quote
\* that only white space separates from the string, { or [ that begins next
CommaOwed(s) ==
    {j \in 1..Len(s) :
        /\ ClosesAt(s, j)
        /\ SkipWhile(s, j + 1, WS) <= Len(s)
        /\ BeginsAt(s, SkipWhile(s, j + 1, WS))}

\* out read against the text it was made from: a character of out is the
\* next character of the text, or else a comma put in after the k
\* characters of the text read so far
ReadAgainst(text, out, st) ==
    IF ~st.ok THEN [st EXCEPT !.i = @ + 1]
    ELSE IF st.k < Len(text) /\ text[st.k + 1] = out[st.i]
      THEN [st EXCEPT !.i = @ + 1, !.k = @ + 1]
    ELSE IF out[st.i] = ","
      THEN [st EXCEPT !.i = @ + 1, !.commas = @ \cup {st.k}]
    ELSE [st EXCEPT !.i = @ + 1, !.ok = FALSE]

\* the commas _addMissingCommas put in: ok when out is the text with
\* nothing but commas added, commas the positions of the text they follow
CommasAdded(text, out) ==
    LET read(t, st) == ReadAgainst(text, t, st)
    IN  Loop(read, out, [i |-> 1, k |-> 0, ok |-> TRUE, commas |-> {}], 1, Len(out))

\* C23: _addMissingCommas puts a comma after every }, ] or closing quote
\* that only white space separates from a string, { or [ that begins
\* outside any string, and no comma it puts in lies between the quotes of
\* a string, a string with escaped quotes included.
C23_CommaWhereOwedNeverInString ==
    pc = "commasAdded" =>
        /\ CommasAdded(input, result.text).ok
        /\ CommaOwed(input) \subseteq CommasAdded(input, result.text).commas
        /\ \A j \in CommasAdded(input, result.text).commas :
               ~\E r \in Strings(input) : r.open <= j /\ j < r.close

\* a string that holds an escaped quote was followed by another string,
\* and the comma went in after its closing quote
C23_Witness ==
    /\ pc = "commasAdded"
    /\ \E r \in Strings(input) :
           /\ r.close <= Len(input)
           /\ \E q \in (r.open + 1)..(r.close - 1) : input[q] = DQ
           /\ r.close \in CommaOwed(input)
           /\ r.close \in CommasAdded(input, result.text).commas

\* C28: _addMissingCommas puts a comma only where nothing but white space
\* separates the previous }, ] or closing quote from the string, { or [
\* that begins, never when a number, a literal or a bare word lies between
\* them, and it changes nothing else: the output without the commas put in
\* is the input.
C28_CommaOnlyWhereOwed ==
    pc = "commasAdded" =>
        /\ CommasAdded(input, result.text).ok
        /\ CommasAdded(input, result.text).k = Len(input)
        /\ CommasAdded(input, result.text).commas \subseteq CommaOwed(input)

\* the closing characters that may be missing at the end of a text
CloserRuns ==
    {<<"}">>, <<"]">>, <<"}", "}">>, <<"]", "]">>, <<"]", "}">>, <<"}", "]">>}

\* fixes reports the characters of c that were added, with their counts
ReportsClosers(fixes, c) ==
    /\ Reports(fixes, "Added missing closing brace(s)")
           = (IF Count(c, "}") > 0
                THEN <<FixN("Added missing closing brace(s)", Count(c, "}"))>> ELSE <<>>)
    /\ Reports(fixes, "Added missing closing bracket(s)")
           = (IF Count(c, "]") > 0
                THEN <<FixN("Added missing closing bracket(s)", Count(c, "]"))>> ELSE <<>>)

\* C24: for a text that is a valid JSON document without closing } and ]
\* characters at its end, JSONParser.fix appends the missing characters,
\* reports their counts and returns success = true with the document and
\* its value, whatever the nesting of objects and arrays.
C24_MissingClosersAreAppended ==
    (engine = "json" /\ pc # "ready") =>
        \A c \in CloserRuns :
            JSONparse(input \o c).success =>
                /\ result.success
                /\ result.fixed = input \o c
                /\ result.data = JSONparse(input \o c).data
                /\ ReportsClosers(result.fixes, c)

\* the text from position k on as the backslash rule is to leave it: in a
\* string, a backslash and the escape character after it are kept, and a
\* backslash that no escape character follows is doubled
RECURSIVE DoubledFrom(_, _, _)
DoubledFrom(s, k, inString) ==
    IF k > Len(s) THEN <<>>
    ELSE IF s[k] = BS /\ inString /\ k < Len(s) /\ s[k + 1] \in EscapeChars
      THEN <<BS, s[k + 1]>> \o DoubledFrom(s, k + 2, inString)
    ELSE IF s[k] = BS /\ inString
      THEN <<BS, BS>> \o DoubledFrom(s, k + 1, inString)
    ELSE IF s[k] = DQ
      THEN <<DQ>> \o DoubledFrom(s, k + 1, ~inString)
    ELSE <<s[k]>> \o DoubledFrom(s, k + 1, inString)

\* C25: the backslash rule of JSONParser.fix doubles, inside strings, the
\* backslashes that no valid escape character follows, and changes nothing
\* else: a backslash that forms a valid escape with the character after it
\* is kept, so the path written with escaped backslashes is not changed.
C25_OnlyBareBackslashesDoubled ==
    pc = "backslashesEscaped" =>
        /\ result.text = DoubledFrom(input, 1, FALSE)
        /\ input = EscapedPath => result.text = input

\* the number of elements open before the k-th tag of a scan: an opening
\* tag adds one, a closing tag takes one away while there is one
RECURSIVE OpenBefore(_, _)
OpenBefore(tags, k) ==
    IF k <= 1 THEN 0
    ELSE LET before == OpenBefore(tags, k - 1)
         IN  IF tags[k - 1].isClosing THEN (IF before > 0 THEN before - 1 ELSE 0)
             ELSE IF tags[k - 1].isSelfClosing THEN before
             ELSE before + 1

\* the closing tags of a text that are met with no element open
UnmatchedClosers(s) ==
    {k \in 1..Len(scanTags(s)) : scanTags(s)[k].isClosing /\ OpenBefore(scanTags(s), k) = 0}

\* the characters of s at the positions in keep, in their order
Pick(s, keep) ==
    [i \in 1..Cardinality(keep) |->
        s[CHOOSE p \in keep : Cardinality({q \in keep : q <= p}) = i]]

\* the text s without the occurrences of its unmatched closing tags
WithoutUnmatched(s) ==
    Pick(s, {p \in 1..Len(s) :
                ~\E k \in UnmatchedClosers(s) :
                    scanTags(s)[k].position <= p /\ p <= scanTags(s)[k].end})

\* C26: _balanceTags deletes the occurrence of every closing tag met with no
\* element open and nothing else, and a rescan of its output meets no
\* closing tag with no element open.
C26_UnmatchedClosersRemoved ==
    (pc = "balanced" /\ TagsAndTextOnly(input)) =>
        /\ result.text = WithoutUnmatched(input)
        /\ UnmatchedClosers(result.text) = {}

\* where the tag entered before position k ends: at the first > that is not
\* inside a quoted attribute value, 0 when there is none; quote is the
\* quote character of the value the scan is in, or "" outside a value
RECURSIVE TagCloseFrom(_, _, _)
TagCloseFrom(s, k, quote) ==
    IF k > Len(s) THEN 0
    ELSE IF quote # "" THEN TagCloseFrom(s, k + 1, IF s[k] = quote THEN "" ELSE quote)
    ELSE IF s[k] = ">" THEN k
    ELSE IF s[k] \in {DQ, SQ} THEN TagCloseFrom(s, k + 1, s[k])
    ELSE TagCloseFrom(s, k + 1, "")

\* a tag begins at position k: a < followed by a name or by / and a name
TagBegins(s, k) ==
    /\ s[k] = "<"
    /\ \/ k < Len(s) /\ s[k + 1] \in Letters
       \/ k + 1 < Len(s) /\ s[k + 1] = "/" /\ s[k + 2] \in Letters
    /\ TagCloseFrom(s, k + 1, "") > 0

\* where the CDATA section that begins at position k ends, 0 when none does
SectionClose(s, k) ==
    IF MatchAt(s, k, <<"<", "!", "[", "C", "D", "A", "T", "A", "[">>)
         /\ IndexOf(s, <<"]", "]", ">">>, k + 9) > 0
      THEN IndexOf(s, <<"]", "]", ">">>, k + 9) + 2
      ELSE 0

\* The text from position k on with its content escaped: tags and CDATA
\* sections are copied, and in the text between them a bare &, a < and a >
\* become &amp;, &lt; and &gt;.
RECURSIVE EscapedFrom(_, _)
EscapedFrom(s, k) ==
    IF k > Len(s) THEN <<>>
    ELSE IF SectionClose(s, k) > 0
      THEN Slice(s, k, SectionClose(s, k)) \o EscapedFrom(s, SectionClose(s, k) + 1)
    ELSE IF TagBegins(s, k)
      THEN Slice(s, k, TagCloseFrom(s, k + 1, "")) \o EscapedFrom(s, TagCloseFrom(s, k + 1, "") + 1)
    ELSE IF s[k] = "&" /\ ~\E e \in EntityNames : MatchAt(s, k + 1, e)
      THEN <<"&", "a", "m", "p", ";">> \o EscapedFrom(s, k + 1)
    ELSE IF s[k] = "<" THEN <<"&", "l", "t", ";">> \o EscapedFrom(s, k + 1)
    ELSE IF s[k] = ">" THEN <<"&", "g", "t", ";">> \o EscapedFrom(s, k + 1)
    ELSE <<s[k]>> \o EscapedFrom(s, k + 1)

\* the text begins with a tag and ends with one, so that all its text
\* content lies between tags
RECURSIVE EndsAfterTag(_, _)
EndsAfterTag(s, k) ==
    IF k > Len(s) THEN FALSE
    ELSE IF SectionClose(s, k) > 0 THEN EndsAfterTag(s, SectionClose(s, k) + 1)
    ELSE IF TagBegins(s, k)
      THEN \/ TagCloseFrom(s, k + 1, "") = Len(s)
           \/ EndsAfterTag(s, TagCloseFrom(s, k + 1, "") + 1)
    ELSE EndsAfterTag(s, k + 1)

ContentBetweenTags(s) == s # <<>> /\ TagBegins(s, 1) /\ EndsAfterTag(s, 1)

\* C27: _escapeSpecialChars turns every bare &, < and > of the text content
\* between tags into &amp;, &lt; and &gt;, leaves escaped entities as they
\* are, and changes no character of a tag (an attribute value may hold a >)
\* or of a CDATA section.
C27_ContentEscapedTagsKept ==
    (pc = "escaped" /\ ContentBetweenTags(input)) => result.text = EscapedFrom(input, 1)

\* The text from position k on with its strings closed: a quote is put
\* before a line break met inside a string and at the end of a text that
\* stops inside one; a backslash inside a string takes the next character
\* with it.
RECURSIVE ClosedFrom(_, _, _, _)
ClosedFrom(s, k, inside, escaped) ==
    IF k > Len(s) THEN (IF inside THEN <<DQ>> ELSE <<>>)
    ELSE IF escaped THEN <<s[k]>> \o ClosedFrom(s, k + 1, inside, FALSE)
    ELSE IF inside /\ s[k] = BS THEN <<s[k]>> \o ClosedFrom(s, k + 1, inside, TRUE)
    ELSE IF s[k] = DQ THEN <<s[k]>> \o ClosedFrom(s, k + 1, ~inside, FALSE)
    ELSE IF inside /\ s[k] \in {NL, CR} THEN <<DQ, s[k]>> \o ClosedFrom(s, k + 1, FALSE, FALSE)
    ELSE <<s[k]>> \o ClosedFrom(s, k + 1, inside, FALSE)

\* A scan of a text from position k on with the inString and escapeNext
\* flags: whether it ends inside a string, and whether it meets a line break
\* while inside one.
RECURSIVE Rescan(_, _, _, _, _)
Rescan(s, k, inside, escaped, lineBreakInside) ==
    IF k > Len(s) THEN [inString |-> inside, lineBreakInside |-> lineBreakInside]
    ELSE LET met == lineBreakInside \/ (inside /\ s[k] \in {NL, CR})
         IN  IF escaped THEN Rescan(s, k + 1, inside, FALSE, met)
             ELSE IF inside /\ s[k] = BS THEN Rescan(s, k + 1, inside, TRUE, met)
             ELSE IF s[k] = DQ THEN Rescan(s, k + 1, ~inside, FALSE, met)
             ELSE Rescan(s, k + 1, inside, FALSE, met)

\* how many quotes a text holds
Quotes(s) == Len(SelectSeq(s, LAMBDA c : c = DQ))

\* text b is text a with quotes put in and nothing else changed
OnlyQuotesAdded(a, b) ==
    /\ IsSubsequence(a, b, 1, 1)
    /\ Len(b) - Len(a) = Quotes(b) - Quotes(a)

\* C29: _fixUnclosedStrings only puts in quotes, one before a line break met
\* inside a string and one at the end of a text that stops inside a string,
\* and in its output every string is closed: a scan with the same flags ends
\* outside a string and meets no line break inside one.
C29_EveryStringClosed ==
    pc = "stringsClosed" =>
        /\ OnlyQuotesAdded(input, result.text)
        /\ result.text = ClosedFrom(input, 1, FALSE, FALSE)
        /\ ~Rescan(result.text, 1, FALSE, FALSE, FALSE).inString
        /\ ~Rescan(result.text, 1, FALSE, FALSE, FALSE).lineBreakInside

\* the runs of initialize so far
InitializeRuns == SelectSeq(trace, LAMBDA run : run.event = "initialize")

\* the runs of a parser's fix so far
FixRuns == SelectSeq(trace, LAMBDA run : run.event = "fix")

\* C30: whatever way calls of fixJSON, fixXML, autoFix and batchFix made
\* before initialization has completed interleave, initialize runs at most
\* once on the engine, and no parser fix is started before initialized is
\* true.
C30_InitializesOnceBeforeAnyFix ==
    engine = "inference" =>
        /\ Len(InitializeRuns) <= 1
        /\ \A k \in 1..Len(FixRuns) : FixRuns[k].initialized

====
